---- MODULE Spec2Model ----
(***************************************************************************)
(* PDF Studio (script.js v3, with the v4 revision's rebuild and delete     *)
(* guard): the edit-state model (rawBytes, pageOrder, pageRots,            *)
(* selectedPgs, curPage, totalPages), the rebuild engine and the           *)
(* content-edit chain (rebuild -> load -> mutate -> save -> applyEdit).    *)
(*                                                                         *)
(* Every async handler is a task; each task step runs from one await to    *)
(* the next, as the JavaScript event loop runs it.  Synchronous handlers    *)
(* are single actions.                                                     *)
(***************************************************************************)
EXTENDS Integers, Sequences, FiniteSets, TLC

VARIABLES
  rev,          \* which revision of script.js runs: "v3" (src/script.js), "v4",
                \* "min" (the minimal revision) or "v1" (the first revision)
  serial,       \* TRUE: the loading overlay keeps handlers from overlapping
  rawBytes,     \* S.rawBytes
  pdfJsDoc,     \* S.pdfJsDoc: the document PDF.js parsed for the preview
  totalPages,   \* S.totalPages
  curPage,      \* S.curPage
  pageOrder,    \* S.pageOrder: sequence of original page indices (0-based)
  pageRots,     \* S.pageRots: original index -> extra degrees
  selectedPgs,  \* S.selectedPgs: set of order positions (0-based)
  grid,         \* #pageGrid: the data-order value of each thumbnail, in DOM order
  dropZoneShown,\* #dropZone (the upload controls) is visible
  btnsOn,       \* the buttons enableBtns() switches are enabled
  gridBtnsOn,   \* delete / rotate buttons are enabled (updateGridBtns)
  sortableOn,   \* a Sortable is attached to #pageGrid
  toast,        \* the last toast shown
  tasks,        \* the async handlers in flight
  mergeFiles,   \* S.mergeFiles: the documents picked for merging, in list order
  mergeJsDocs,  \* S.mergeJsDocs: the documents PDF.js parsed for the merge preview
  mergeCurDoc,  \* S.mergeCurDoc: the list index of the previewed document
  mergeDom,     \* #mergePrevDoc / #mergeNextDoc enabled, and the items of #mergeList
  loadingShown, \* #loadingOverlay is visible: loading(true) ran last, not loading(false)
  ops           \* user events handled so far

vars == <<rev, serial, rawBytes, pdfJsDoc, totalPages, curPage, pageOrder,
          pageRots, selectedPgs, grid, dropZoneShown, btnsOn, gridBtnsOn,
          sortableOn, toast, tasks, mergeFiles, mergeJsDocs, mergeCurDoc, mergeDom,
          loadingShown, ops>>

(***************************************************************************)
(* Bounds of the model.                                                    *)
(***************************************************************************)
MaxPages == 3     \* the largest file the user can pick has MaxPages pages
MaxTasks == 2     \* async handlers in flight at once (when not serial)
MaxOverlays == 1  \* overlays drawn onto one document over its life
MaxOps == 6       \* user events (clicks, drags, file picks) in one behaviour, one at a time
MaxAsyncOps == 4  \* user events in one behaviour when handlers may overlap
MaxMerge == 2     \* files on the merge list
MaxClicks == 5    \* user events in one behaviour of the minimal revision
MaxFirstOps == 6  \* user events in one behaviour of the first revision

(***************************************************************************)
(* JavaScript values.                                                      *)
(***************************************************************************)
\* `undefined`, as an array read out of range or a splice of nothing yields it
Undefined == -1

\* NaN, as parseInt yields it for a field that holds no number
NaN == -2

\* Number.isFinite(x), for x an integer or NaN
IsFinite(x) == x # NaN

\* a < b of JavaScript: false when either side is NaN
JsLess(a, b) == a # NaN /\ b # NaN /\ a < b

Min(a, b) == IF a < b THEN a ELSE b
Max(a, b) == IF a > b THEN a ELSE b
SetMax(S) == CHOOSE x \in S : \A y \in S : y <= x

\* a % b of JavaScript: the remainder takes the sign of the dividend
JsRem(a, b) == IF a >= 0 THEN a % b ELSE -((-a) % b)

\* Number.isInteger(i) && i >= 0 && i < total
ValidIndex(i, total) == i # Undefined /\ i >= 0 /\ i < total

(***************************************************************************)
(* Documents.  A document is its pages in order; a page is its content     *)
(* (c: which page of which file, ov: overlays drawn on it) and its /Rotate *)
(* entry (rot: <<>> when the codec reports none, else <<angle>>).          *)
(***************************************************************************)
Null == [null |-> TRUE, pages |-> <<>>]
Bytes(ps) == [null |-> FALSE, pages |-> ps]
NumPages(doc) == Len(doc.pages)

\* /Rotate of page k of a picked file: absent, 90, -90, 180, ...
FileRot(k) == CASE k % 4 = 1 -> <<>>
                [] k % 4 = 2 -> <<90>>
                [] k % 4 = 3 -> <<-90>>
                [] OTHER     -> <<180>>

\* the file of n pages the user can pick
File(n) == Bytes([k \in 1..n |-> [c |-> k, ov |-> 0, rot |-> FileRot(k)]])
Files == {File(n) : n \in 1..MaxPages}

Overlays(doc) == LET RECURSIVE Sum(_)
                     Sum(k) == IF k = 0 THEN 0 ELSE doc.pages[k].ov + Sum(k - 1)
                 IN Sum(NumPages(doc))

(***************************************************************************)
(* getPageRotationAngle (script.js 41-46): the angle, 0 when the codec     *)
(* reports none.                                                           *)
(***************************************************************************)
getPageRotationAngle(page) == IF page.rot = <<>> THEN 0 ELSE page.rot[1]

(***************************************************************************)
(* The ledger: a function from the keys written so far to degrees.         *)
(***************************************************************************)
EmptyRots == [k \in {} |-> 0]

\* S.pageRots[k] || 0
RotOfMissing(rots, k) == IF k \in DOMAIN rots THEN rots[k] ELSE 90

RotOf(rots, k) == IF k \in DOMAIN rots THEN rots[k] ELSE 0

PutRot(rots, k, v) == [x \in (DOMAIN rots) \cup {k} |-> IF x = k THEN v ELSE rots[x]]

(***************************************************************************)
(* Array.prototype.splice, as the handlers use it (0-based positions).     *)
(***************************************************************************)
\* s.splice(i, 1): the array left
SpliceOut(s, i) ==
  IF i < Len(s)
  THEN [k \in 1..(Len(s) - 1) |-> IF k <= i THEN s[k] ELSE s[k + 1]]
  ELSE s

\* s.splice(i, 1)[0]: the element taken out, undefined when there is none
SpliceTaken(s, i) == IF i < Len(s) THEN s[i + 1] ELSE Undefined

\* s.splice(i, 0, x): x inserted at position i, or appended when i is past the end
SpliceIn(s, i, x) ==
  LET j == Min(i, Len(s))
  IN [k \in 1..(Len(s) + 1) |-> IF k <= j THEN s[k] ELSE IF k = j + 1 THEN x ELSE s[k - 1]]

\* Array.from({length: n}, (_, i) => i)
IdentityOrder(n) == [k \in 1..n |-> k - 1]

(***************************************************************************)
(* Sortable onEnd (script.js 572-574): take the entry out at oldIndex and  *)
(* put it back at newIndex.                                                *)
(***************************************************************************)
ReorderSwap(order, oldIndex, newIndex) ==
  IF oldIndex < Len(order) /\ newIndex < Len(order)
  THEN [k \in 1..Len(order) |-> IF k = oldIndex + 1 THEN order[newIndex + 1]
                                ELSE IF k = newIndex + 1 THEN order[oldIndex + 1]
                                ELSE order[k]]
  ELSE order

Reorder(order, oldIndex, newIndex) ==
  SpliceIn(SpliceOut(order, oldIndex), newIndex, SpliceTaken(order, oldIndex))

(***************************************************************************)
(* Delete (script.js 608): splice out the selected positions, highest      *)
(* first.                                                                  *)
(***************************************************************************)
DeleteSelectedByValue(order, sel) == SelectSeq(order, LAMBDA v : v \notin sel)

RECURSIVE DeleteSelected(_, _)
DeleteSelected(order, sel) ==
  IF sel = {} THEN order
  ELSE LET m == SetMax(sel)
       IN DeleteSelected(SpliceOut(order, m), sel \ {m})

(***************************************************************************)
(* rotateSel (script.js 620-623): add deg to the ledger entry of the       *)
(* original page at each selected position.                                *)
(***************************************************************************)
\* S.selectedPgs.clear()
ClearSelectionKept(sel) == sel

ClearSelection(sel) == {}

\* S.pageOrder[i]
OrderAt(order, i) == IF i >= 0 /\ i < Len(order) THEN order[i + 1] ELSE Undefined

RotateStepNoWrap(d, deg) == d + deg

RotateStep(d, deg) == (d + deg + 360) % 360

RECURSIVE RotateAllByPosition(_, _, _, _)
RotateAllByPosition(rots, order, sel, deg) ==
  IF sel = {} THEN rots
  ELSE LET i == CHOOSE x \in sel : TRUE
       IN RotateAllByPosition(PutRot(rots, i, RotateStep(RotOf(rots, i), deg)),
                              order, sel \ {i}, deg)

RECURSIVE RotateAll(_, _, _, _)
RotateAll(rots, order, sel, deg) ==
  IF sel = {} THEN rots
  ELSE LET i == CHOOSE x \in sel : TRUE
           orig == OrderAt(order, i)
       IN RotateAll(PutRot(rots, orig, RotateStep(RotOf(rots, orig), deg)),
                    order, sel \ {i}, deg)

(***************************************************************************)
(* rebuild (script.js 332-347, v4 315-350).                                *)
(***************************************************************************)
\* every entry passes v4's filter (script.js v4 324-328)
OrderValid(order, total) == \A k \in 1..Len(order) : ValidIndex(order[k], total)

\* dest.copyPages(src, order): the copies, in order's sequence
CopyPagesIdentity(src, order) == [k \in 1..Len(order) |-> src.pages[Min(k, NumPages(src))]]

CopyPages(src, order) == [k \in 1..Len(order) |-> src.pages[order[k] + 1]]

\* the angle rebuild writes on a page whose ledger delta is extra (# 0)
RotatedAngleSubstituted(page, extra) == JsRem(extra, 360)

RotatedAngle(page, extra) == JsRem(getPageRotationAngle(page) + extra, 360)

\* pages.forEach(...): page i gets the delta of the original index order[i]
RotatePagesSkipped(pages, order, rots) == pages

RotatePages(pages, order, rots) ==
  [k \in 1..Len(pages) |->
     LET extra == RotOf(rots, OrderAt(order, k - 1))
     IN IF extra # 0
        THEN [pages[k] EXCEPT !.rot = <<RotatedAngle(pages[k], extra)>>]
        ELSE pages[k]]

\* page.drawText / page.drawImage on page pg (1-based) of the reopened baseline
DrawOverlayFirst(doc, pg) == Bytes([doc.pages EXCEPT ![1].ov = @ + 1])

DrawOverlay(doc, pg) == Bytes([doc.pages EXCEPT ![pg].ov = @ + 1])

(***************************************************************************)
(* applyEdit (script.js 354-365): what the commit installs.                *)
(***************************************************************************)
CommitOrderKept(order, n) == order

CommitOrder(order, n) == IdentityOrder(n)

CommitRotsKept(rots) == rots

CommitRots(rots) == EmptyRots

\* previewMain's clamp (script.js 217)
ClampPageLoose(pg, total) == Max(1, pg)

ClampPage(pg, total) == Max(1, Min(pg, total))

(***************************************************************************)
(* Tasks: the async handlers between their awaits.                         *)
(*   doc    the document the task holds (source, then baseline, then the   *)
(*          commit bytes)                                                  *)
(*   pages  the pages copyPages returned                                   *)
(*   order  the order handed to copyPages                                  *)
(*   err    the pending call will reject                                   *)
(*   calls  codec calls rebuild has made so far                            *)
(*   from, to  the range a split extracts                                  *)
(*   files  the files addMergeFiles has still to read                      *)
(*   pre    rawBytes, pageOrder, pageRots, selectedPgs, curPage when the   *)
(*          handler started                                                *)
(***************************************************************************)
NoPre == [rawBytes |-> Null, pageOrder |-> <<>>, pageRots |-> EmptyRots, selectedPgs |-> {},
          curPage |-> 1]

IdleTask == [kind |-> "idle", pc |-> "idle", pg |-> 0, doc |-> Null, pages |-> <<>>,
             order |-> <<>>, prevPage |-> 0, i |-> 0, err |-> FALSE, calls |-> 0,
             from |-> 0, to |-> 0, files |-> <<>>, pre |-> NoPre]

Slots == 1..MaxTasks
FreeSlots == {t \in Slots : tasks[t].kind = "idle"}
Slot == CHOOSE t \in FreeSlots : \A u \in FreeSlots : t <= u
AllIdle == FreeSlots = Slots

\* an event handler can start: always, unless the overlay serialises the handlers
CanStart == IF serial THEN ops < MaxOps /\ AllIdle ELSE ops < MaxAsyncOps

Start(task) == [tasks EXCEPT ![Slot] = task]
Finish(t) == [tasks EXCEPT ![t] = IdleTask]

PreNow == [rawBytes |-> rawBytes, pageOrder |-> pageOrder, pageRots |-> pageRots,
           selectedPgs |-> selectedPgs, curPage |-> curPage]

\* pdfJsDoc.getPage(origIdx + 1) rejects
GetPageFails(doc, origIdx) == doc.null \/ ~ValidIndex(origIdx, NumPages(doc))

Range(s) == {s[k] : k \in 1..Len(s)}

(***************************************************************************)
(* loadFile / ingestBytes (script.js 140-179).                             *)
(***************************************************************************)
\* isNew: S.pageOrder = Array.from({ length: S.totalPages }, (_, i) => i)
IngestOrderKept(order, n) == order

IngestOrder(order, n) == IdentityOrder(n)

LoadFile(f) ==
  /\ CanStart /\ ops' = ops + 1 /\ dropZoneShown /\ FreeSlots # {}
  /\ loadingShown' = TRUE
  /\ tasks' = Start([IdleTask EXCEPT !.kind = "load", !.pc = "ld_read", !.doc = f,
                                     !.pre = PreNow])
  /\ UNCHANGED <<mergeFiles, mergeJsDocs, mergeCurDoc, mergeDom, rev, serial, rawBytes, pdfJsDoc, totalPages, curPage, pageOrder, pageRots,
                 selectedPgs, grid, dropZoneShown, btnsOn, gridBtnsOn, sortableOn, toast>>

\* file.arrayBuffer() resolved: ingestBytes installs the bytes and asks PDF.js to parse them
LoadRead(t) ==
  /\ tasks[t].pc = "ld_read"
  /\ rawBytes' = tasks[t].doc
  /\ tasks' = [tasks EXCEPT ![t].pc = "ld_parse"]
  /\ UNCHANGED <<loadingShown, mergeFiles, mergeJsDocs, mergeCurDoc, mergeDom, ops, rev, serial, pdfJsDoc, totalPages, curPage, pageOrder, pageRots,
                 selectedPgs, grid, dropZoneShown, btnsOn, gridBtnsOn, sortableOn, toast>>

\* getDocument resolved: the reset of isNew, then loadFile's previewMain(1)
LoadParsed(t) ==
  /\ tasks[t].pc = "ld_parse"
  /\ pdfJsDoc' = tasks[t].doc
  /\ totalPages' = NumPages(tasks[t].doc)
  /\ pageOrder' = IngestOrder(pageOrder, totalPages')
  /\ pageRots' = EmptyRots
  /\ selectedPgs' = {}
  /\ curPage' = ClampPage(1, totalPages')
  /\ dropZoneShown' = FALSE
  /\ btnsOn' = TRUE
  /\ tasks' = [tasks EXCEPT ![t].pc = "ld_preview",
                            ![t].err = GetPageFails(pdfJsDoc', OrderAt(pageOrder', curPage' - 1))]
  /\ UNCHANGED <<loadingShown, mergeFiles, mergeJsDocs, mergeCurDoc, mergeDom, ops, rev, serial, rawBytes, grid, gridBtnsOn, sortableOn, toast>>

LoadDone(t) ==
  /\ tasks[t].pc = "ld_preview" /\ ~tasks[t].err
  /\ loadingShown' = FALSE
  /\ toast' = "success"
  /\ tasks' = Finish(t)
  /\ UNCHANGED <<mergeFiles, mergeJsDocs, mergeCurDoc, mergeDom, ops, rev, serial, rawBytes, pdfJsDoc, totalPages, curPage, pageOrder, pageRots,
                 selectedPgs, grid, dropZoneShown, btnsOn, gridBtnsOn, sortableOn>>

\* getDocument, getPage or render rejected: loadFile's catch
LoadFailed(t) ==
  /\ tasks[t].pc \in {"ld_parse", "ld_preview"}
  /\ loadingShown' = FALSE
  /\ toast' = "error:load"
  /\ tasks' = Finish(t)
  /\ UNCHANGED <<mergeFiles, mergeJsDocs, mergeCurDoc, mergeDom, ops, rev, serial, rawBytes, pdfJsDoc, totalPages, curPage, pageOrder, pageRots,
                 selectedPgs, grid, dropZoneShown, btnsOn, gridBtnsOn, sortableOn>>

(***************************************************************************)
(* clearFile (script.js 202-212).                                          *)
(***************************************************************************)
ClearFile ==
  /\ CanStart /\ ops' = ops + 1 /\ ~dropZoneShown
  /\ pdfJsDoc' = Null /\ rawBytes' = Null
  /\ pageOrder' = <<>> /\ pageRots' = EmptyRots
  /\ totalPages' = 0 /\ curPage' = 1
  /\ selectedPgs' = {}
  /\ dropZoneShown' = TRUE
  /\ grid' = <<>>
  /\ btnsOn' = FALSE
  /\ UNCHANGED <<loadingShown, mergeFiles, mergeJsDocs, mergeCurDoc, mergeDom, rev, serial, gridBtnsOn, sortableOn, toast, tasks>>

(***************************************************************************)
(* prevPage / nextPage (script.js 240-241): previewMain(curPage -/+ 1).    *)
(***************************************************************************)
TurnPage(d) ==
  /\ CanStart /\ ops' = ops + 1 /\ ~pdfJsDoc.null
  /\ curPage' = ClampPage(curPage + d, totalPages)
  /\ curPage' # curPage
  /\ UNCHANGED <<loadingShown, mergeFiles, mergeJsDocs, mergeCurDoc, mergeDom, rev, serial, rawBytes, pdfJsDoc, totalPages, pageOrder, pageRots,
                 selectedPgs, grid, dropZoneShown, btnsOn, gridBtnsOn, sortableOn, toast,
                 tasks>>

(***************************************************************************)
(* okPage (script.js 105-111).                                             *)
(***************************************************************************)
okPageOfSnapshot(n) == IsFinite(n) /\ ~JsLess(n, 1) /\ ~JsLess(NumPages(rawBytes), n)

okPage(n) == IsFinite(n) /\ ~JsLess(n, 1) /\ ~JsLess(totalPages, n)

FailToast(kind) == CASE kind = "edit"     -> "error:edit"
                     [] kind = "download" -> "error:download"
                     [] kind = "split"    -> "error:split"
                     [] kind = "merge"    -> "error:merge"
                     [] OTHER             -> "error"

(***************************************************************************)
(* The content-edit handlers (addTextBtn, addImageBtn, addSigBtn:          *)
(* script.js 632-734) up to their first await, and downloadBtn (752-761).  *)
(* rebuild() runs synchronously up to PDFDocument.load(S.rawBytes).        *)
(***************************************************************************)
\* the handler returns on its input checks: the overlay's content first (empty
\* text, no image picked, blank signature canvas), then okPage
EditRejectedResets(has, pg) ==
  /\ CanStart /\ ops' = ops + 1 /\ btnsOn /\ ~rawBytes.null
  /\ ~has \/ ~okPage(pg)
  /\ toast' = IF has THEN "error:page" ELSE "error:input"
  /\ curPage' = 1 /\ selectedPgs' = {}
  /\ UNCHANGED <<loadingShown, mergeFiles, mergeJsDocs, mergeCurDoc, mergeDom, rev, serial, rawBytes, pdfJsDoc, totalPages, pageOrder,
                 pageRots, grid, dropZoneShown, btnsOn, gridBtnsOn, sortableOn, tasks>>

EditRejected(has, pg) ==
  /\ CanStart /\ ops' = ops + 1 /\ btnsOn /\ ~rawBytes.null
  /\ ~has \/ ~okPage(pg)
  /\ toast' = IF has THEN "error:page" ELSE "error:input"
  /\ UNCHANGED <<loadingShown, mergeFiles, mergeJsDocs, mergeCurDoc, mergeDom, rev, serial, rawBytes, pdfJsDoc, totalPages, curPage, pageOrder, pageRots,
                 selectedPgs, grid, dropZoneShown, btnsOn, gridBtnsOn, sortableOn, tasks>>

EditStart(pg) ==
  /\ CanStart /\ ops' = ops + 1 /\ btnsOn /\ ~rawBytes.null
  /\ loadingShown' = TRUE
  /\ okPage(pg)
  /\ Overlays(rawBytes) < MaxOverlays
  /\ FreeSlots # {}
  /\ tasks' = Start([IdleTask EXCEPT !.kind = "edit", !.pc = "rb_load", !.pg = pg,
                                     !.doc = rawBytes, !.calls = 1, !.pre = PreNow])
  /\ UNCHANGED <<mergeFiles, mergeJsDocs, mergeCurDoc, mergeDom, rev, serial, rawBytes, pdfJsDoc, totalPages, curPage, pageOrder, pageRots,
                 selectedPgs, grid, dropZoneShown, btnsOn, gridBtnsOn, sortableOn, toast>>

Download ==
  /\ CanStart /\ ops' = ops + 1 /\ btnsOn /\ ~rawBytes.null
  /\ loadingShown' = TRUE
  /\ FreeSlots # {}
  /\ tasks' = Start([IdleTask EXCEPT !.kind = "download", !.pc = "rb_load",
                                     !.doc = rawBytes, !.calls = 1, !.pre = PreNow])
  /\ UNCHANGED <<mergeFiles, mergeJsDocs, mergeCurDoc, mergeDom, rev, serial, rawBytes, pdfJsDoc, totalPages, curPage, pageOrder, pageRots,
                 selectedPgs, grid, dropZoneShown, btnsOn, gridBtnsOn, sortableOn, toast>>

(***************************************************************************)
(* rebuild after its awaits (script.js 334-346; v4 318-349).               *)
(***************************************************************************)
\* load and create resolved.  v4 validates S.pageOrder here and throws; both
\* revisions then call copyPages with the order as it is now.
RebuildLoaded(t) ==
  /\ tasks[t].pc = "rb_load"
  /\ IF rev = "v4" /\ ~OrderValid(pageOrder, NumPages(tasks[t].doc))
     THEN /\ toast' = "error:corrupt"
          /\ loadingShown' = FALSE
          /\ tasks' = Finish(t)
     ELSE /\ tasks' = [tasks EXCEPT
                 ![t].pc = "rb_copy",
                 ![t].calls = 3,
                 ![t].order = pageOrder,
                 ![t].err = ~OrderValid(pageOrder, NumPages(tasks[t].doc)),
                 ![t].pages = IF OrderValid(pageOrder, NumPages(tasks[t].doc))
                              THEN CopyPages(tasks[t].doc, pageOrder) ELSE <<>>]
          /\ UNCHANGED <<toast, loadingShown>>
  /\ UNCHANGED <<mergeFiles, mergeJsDocs, mergeCurDoc, mergeDom, ops, rev, serial, rawBytes, pdfJsDoc, totalPages, curPage, pageOrder, pageRots,
                 selectedPgs, grid, dropZoneShown, btnsOn, gridBtnsOn, sortableOn>>

\* the order the forEach reads: S.pageOrder as it is now (v3), safeOrder (v4)
ForEachOrderByPosition(t) == IdentityOrder(Len(tasks[t].pages))

ForEachOrder(t) == IF rev = "v4" THEN tasks[t].order ELSE pageOrder

\* copyPages resolved: the forEach sets rotations from the ledger as it is now,
\* adds the pages, and save() is called
RebuildCopied(t) ==
  /\ tasks[t].pc = "rb_copy" /\ ~tasks[t].err
  /\ tasks' = [tasks EXCEPT
        ![t].pc = "rb_save",
        ![t].calls = 4,
        ![t].pages = RotatePages(tasks[t].pages, ForEachOrder(t), pageRots)]
  /\ UNCHANGED <<loadingShown, mergeFiles, mergeJsDocs, mergeCurDoc, mergeDom, ops, rev, serial, rawBytes, pdfJsDoc, totalPages, curPage, pageOrder, pageRots,
                 selectedPgs, grid, dropZoneShown, btnsOn, gridBtnsOn, sortableOn, toast>>

\* a codec call of rebuild, or of the handler after it, rejected: the handler's catch
CodecFailedOverlayLeft(t) ==
  /\ tasks[t].pc \in {"rb_load", "rb_copy", "rb_save", "ed_load", "ed_save",
                      "sp_copy", "sp_save", "mg_file", "mg_save"}
  /\ loadingShown' = loadingShown
  /\ toast' = FailToast(tasks[t].kind)
  /\ tasks' = Finish(t)
  /\ UNCHANGED <<mergeFiles, mergeJsDocs, mergeCurDoc, mergeDom, ops, rev, serial, rawBytes, pdfJsDoc, totalPages, curPage, pageOrder, pageRots,
                 selectedPgs, grid, dropZoneShown, btnsOn, gridBtnsOn, sortableOn>>

CodecFailed(t) ==
  /\ tasks[t].pc \in {"rb_load", "rb_copy", "rb_save", "ed_load", "ed_save",
                      "sp_copy", "sp_save", "mg_file", "mg_save"}
  /\ loadingShown' = FALSE
  /\ toast' = FailToast(tasks[t].kind)
  /\ tasks' = Finish(t)
  /\ UNCHANGED <<mergeFiles, mergeJsDocs, mergeCurDoc, mergeDom, ops, rev, serial, rawBytes, pdfJsDoc, totalPages, curPage, pageOrder, pageRots,
                 selectedPgs, grid, dropZoneShown, btnsOn, gridBtnsOn, sortableOn>>

\* downloadBtn: save resolved, dlBytes
DownloadDone(t) ==
  /\ tasks[t].kind = "download" /\ tasks[t].pc = "rb_save"
  /\ loadingShown' = FALSE
  /\ toast' = "success"
  /\ tasks' = Finish(t)
  /\ UNCHANGED <<mergeFiles, mergeJsDocs, mergeCurDoc, mergeDom, ops, rev, serial, rawBytes, pdfJsDoc, totalPages, curPage, pageOrder, pageRots,
                 selectedPgs, grid, dropZoneShown, btnsOn, gridBtnsOn, sortableOn>>

(***************************************************************************)
(* The content edit after rebuild (script.js 645-654).                     *)
(***************************************************************************)
\* rebuild's save resolved: the baseline is reopened
EditReopen(t) ==
  /\ tasks[t].kind = "edit" /\ tasks[t].pc = "rb_save"
  /\ tasks' = [tasks EXCEPT ![t].pc = "ed_load", ![t].doc = Bytes(tasks[t].pages),
                            ![t].pages = <<>>, ![t].order = <<>>]
  /\ UNCHANGED <<loadingShown, mergeFiles, mergeJsDocs, mergeCurDoc, mergeDom, ops, rev, serial, rawBytes, pdfJsDoc, totalPages, curPage, pageOrder, pageRots,
                 selectedPgs, grid, dropZoneShown, btnsOn, gridBtnsOn, sortableOn, toast>>

\* load (and the embed) resolved: doc.getPages()[pg - 1] is drawn on, save() is called;
\* a missing page throws
EditMutate(t) ==
  /\ tasks[t].pc = "ed_load"
  /\ IF tasks[t].pg <= NumPages(tasks[t].doc)
     THEN /\ tasks' = [tasks EXCEPT ![t].pc = "ed_save",
                                    ![t].doc = DrawOverlay(tasks[t].doc, tasks[t].pg)]
          /\ UNCHANGED <<toast, loadingShown>>
     ELSE /\ toast' = FailToast("edit")
          /\ loadingShown' = FALSE
          /\ tasks' = Finish(t)
  /\ UNCHANGED <<mergeFiles, mergeJsDocs, mergeCurDoc, mergeDom, ops, rev, serial, rawBytes, pdfJsDoc, totalPages, curPage, pageOrder, pageRots,
                 selectedPgs, grid, dropZoneShown, btnsOn, gridBtnsOn, sortableOn>>

(***************************************************************************)
(* applyEdit (script.js 354-365).                                          *)
(***************************************************************************)
\* doc.save() resolved; applyEdit runs to its await of getDocument
ApplyEditInstall(t) ==
  /\ tasks[t].pc = "ed_save"
  /\ rawBytes' = tasks[t].doc
  /\ tasks' = [tasks EXCEPT ![t].pc = "ae_parse", ![t].prevPage = curPage]
  /\ UNCHANGED <<loadingShown, mergeFiles, mergeJsDocs, mergeCurDoc, mergeDom, ops, rev, serial, pdfJsDoc, totalPages, curPage, pageOrder, pageRots,
                 selectedPgs, grid, dropZoneShown, btnsOn, gridBtnsOn, sortableOn, toast>>

\* getDocument resolved; applyEdit runs on into previewMain, to its await of getPage
ApplyEditReset(t) ==
  /\ tasks[t].pc = "ae_parse"
  /\ pdfJsDoc' = tasks[t].doc
  /\ totalPages' = NumPages(tasks[t].doc)
  /\ pageOrder' = CommitOrder(pageOrder, totalPages')
  /\ pageRots' = CommitRots(pageRots)
  /\ curPage' = ClampPage(Min(tasks[t].prevPage, totalPages'), totalPages')
  /\ tasks' = [tasks EXCEPT ![t].pc = "ae_preview",
                            ![t].err = GetPageFails(pdfJsDoc', OrderAt(pageOrder', curPage' - 1))]
  /\ UNCHANGED <<loadingShown, mergeFiles, mergeJsDocs, mergeCurDoc, mergeDom, ops, rev, serial, rawBytes, selectedPgs, grid, dropZoneShown, btnsOn,
                 gridBtnsOn, sortableOn, toast>>

\* previewMain resolved: the handler's success path
EditDone(t) ==
  /\ tasks[t].pc = "ae_preview" /\ ~tasks[t].err
  /\ loadingShown' = FALSE
  /\ toast' = "success"
  /\ tasks' = Finish(t)
  /\ UNCHANGED <<mergeFiles, mergeJsDocs, mergeCurDoc, mergeDom, ops, rev, serial, rawBytes, pdfJsDoc, totalPages, curPage, pageOrder, pageRots,
                 selectedPgs, grid, dropZoneShown, btnsOn, gridBtnsOn, sortableOn>>

\* getDocument, getPage or render rejected inside applyEdit: the handler's catch
ApplyEditFailed(t) ==
  /\ tasks[t].pc \in {"ae_parse", "ae_preview"}
  /\ loadingShown' = FALSE
  /\ toast' = FailToast("edit")
  /\ tasks' = Finish(t)
  /\ UNCHANGED <<mergeFiles, mergeJsDocs, mergeCurDoc, mergeDom, ops, rev, serial, rawBytes, pdfJsDoc, totalPages, curPage, pageOrder, pageRots,
                 selectedPgs, grid, dropZoneShown, btnsOn, gridBtnsOn, sortableOn>>

(***************************************************************************)
(* renderGrid (script.js 525-584).  It empties the grid and appends one    *)
(* thumbnail per await of getPage / render, reading S.pageOrder and        *)
(* S.pdfJsDoc as they are at each turn of the loop.                        *)
(***************************************************************************)
\* the task that renderGrid leaves in flight when called by handler `kind`
GridTask(kind) ==
  [IdleTask EXCEPT !.kind = kind, !.pc = "gr_page", !.i = 0,
                   !.err = GetPageFails(pdfJsDoc, OrderAt(pageOrder, 0))]

\* renderGrid has something to await: a document is parsed and the order is not empty
GridAwaits == ~pdfJsDoc.null /\ Len(pageOrder) > 0

\* the pages panel is opened (script.js 128-137)
OpenPages ==
  /\ CanStart /\ ops' = ops + 1 /\ GridAwaits /\ FreeSlots # {}
  /\ loadingShown' = TRUE
  /\ grid' = <<>>
  /\ tasks' = Start(GridTask("grid"))
  /\ UNCHANGED <<mergeFiles, mergeJsDocs, mergeCurDoc, mergeDom, rev, serial, rawBytes, pdfJsDoc, totalPages, curPage, pageOrder, pageRots,
                 selectedPgs, dropZoneShown, btnsOn, gridBtnsOn, sortableOn, toast>>

\* one thumbnail rendered and appended, and the loop goes on to the next page
GridThumb(t) ==
  /\ tasks[t].pc = "gr_page" /\ ~tasks[t].err
  /\ tasks[t].i + 1 < Len(pageOrder)
  /\ grid' = Append(grid, tasks[t].i)
  /\ tasks' = [tasks EXCEPT ![t].i = @ + 1,
                            ![t].err = GetPageFails(pdfJsDoc, OrderAt(pageOrder, tasks[t].i + 1))]
  /\ UNCHANGED <<loadingShown, mergeFiles, mergeJsDocs, mergeCurDoc, mergeDom, ops, rev, serial, rawBytes, pdfJsDoc, totalPages, curPage, pageOrder, pageRots,
                 selectedPgs, dropZoneShown, btnsOn, gridBtnsOn, sortableOn, toast>>

\* the last thumbnail appended: the Sortable is attached, updateGridBtns runs, and
\* a delete or rotate handler goes on to previewMain(S.curPage) and its toast
GridDone(t) ==
  /\ tasks[t].pc = "gr_page" /\ ~tasks[t].err
  /\ loadingShown' = FALSE
  /\ ~(tasks[t].i + 1 < Len(pageOrder))
  /\ grid' = Append(grid, tasks[t].i)
  /\ sortableOn' = TRUE
  /\ gridBtnsOn' = (selectedPgs # {})
  /\ IF tasks[t].kind = "grid"
     THEN UNCHANGED <<curPage, toast>>
     ELSE /\ curPage' = IF pdfJsDoc.null THEN curPage ELSE ClampPage(curPage, totalPages)
          /\ toast' = "success"
  /\ tasks' = Finish(t)
  /\ UNCHANGED <<mergeFiles, mergeJsDocs, mergeCurDoc, mergeDom, ops, rev, serial, rawBytes, pdfJsDoc, totalPages, pageOrder, pageRots,
                 selectedPgs, dropZoneShown, btnsOn>>

\* getPage or render rejected: renderGrid's finally, and the handler ends on the
\* rejection
GridFailed(t) ==
  /\ tasks[t].pc = "gr_page"
  /\ loadingShown' = FALSE
  /\ tasks' = Finish(t)
  /\ UNCHANGED <<mergeFiles, mergeJsDocs, mergeCurDoc, mergeDom, ops, rev, serial, rawBytes, pdfJsDoc, totalPages, curPage, pageOrder, pageRots,
                 selectedPgs, grid, dropZoneShown, btnsOn, gridBtnsOn, sortableOn, toast>>

(***************************************************************************)
(* Selection (script.js 560-565, 593-602).                                 *)
(***************************************************************************)
ThumbClick(idx) ==
  /\ CanStart /\ ops' = ops + 1 /\ idx \in Range(grid)
  /\ selectedPgs' = IF idx \in selectedPgs THEN selectedPgs \ {idx} ELSE selectedPgs \cup {idx}
  /\ gridBtnsOn' = (selectedPgs' # {})
  /\ UNCHANGED <<loadingShown, mergeFiles, mergeJsDocs, mergeCurDoc, mergeDom, rev, serial, rawBytes, pdfJsDoc, totalPages, curPage, pageOrder, pageRots,
                 grid, dropZoneShown, btnsOn, sortableOn, toast, tasks>>

SelectAll ==
  /\ CanStart /\ ops' = ops + 1
  /\ selectedPgs' = selectedPgs \cup {k - 1 : k \in 1..Len(pageOrder)}
  /\ gridBtnsOn' = (selectedPgs' # {})
  /\ <<selectedPgs', gridBtnsOn'>> # <<selectedPgs, gridBtnsOn>>
  /\ UNCHANGED <<loadingShown, mergeFiles, mergeJsDocs, mergeCurDoc, mergeDom, rev, serial, rawBytes, pdfJsDoc, totalPages, curPage, pageOrder, pageRots,
                 grid, dropZoneShown, btnsOn, sortableOn, toast, tasks>>

DeselectAll ==
  /\ CanStart /\ ops' = ops + 1
  /\ selectedPgs' = {}
  /\ gridBtnsOn' = FALSE
  /\ <<selectedPgs', gridBtnsOn'>> # <<selectedPgs, gridBtnsOn>>
  /\ UNCHANGED <<loadingShown, mergeFiles, mergeJsDocs, mergeCurDoc, mergeDom, rev, serial, rawBytes, pdfJsDoc, totalPages, curPage, pageOrder, pageRots,
                 grid, dropZoneShown, btnsOn, sortableOn, toast, tasks>>

(***************************************************************************)
(* Sortable onEnd (script.js 572-580).                                     *)
(***************************************************************************)
ReorderPages(oldIndex, newIndex) ==
  /\ CanStart /\ ops' = ops + 1 /\ sortableOn
  /\ oldIndex \in 0..(Len(grid) - 1) /\ newIndex \in 0..(Len(grid) - 1)
  /\ pageOrder' = Reorder(pageOrder, oldIndex, newIndex)
  /\ grid' = [k \in 1..Len(grid) |-> k - 1]
  /\ selectedPgs' = ClearSelection(selectedPgs)
  /\ toast' = "info"
  /\ UNCHANGED <<loadingShown, mergeFiles, mergeJsDocs, mergeCurDoc, mergeDom, rev, serial, rawBytes, pdfJsDoc, totalPages, curPage, pageRots,
                 dropZoneShown, btnsOn, gridBtnsOn, sortableOn, tasks>>

(***************************************************************************)
(* deleteSelectedBtn (script.js 604-615; v4 607-619).                      *)
(***************************************************************************)
\* the guard that refuses the delete with 'Cannot delete all pages.'
DeleteRefusedNever(size, len) == FALSE

DeleteRefused(size, len) == size >= len \/ (rev = "v4" /\ size = 0)

DeleteRejected ==
  /\ CanStart /\ ops' = ops + 1 /\ gridBtnsOn
  /\ (rev = "v3" => selectedPgs # {})
  /\ DeleteRefused(Cardinality(selectedPgs), Len(pageOrder))
  /\ toast' = "error:deleteall"
  /\ UNCHANGED <<loadingShown, mergeFiles, mergeJsDocs, mergeCurDoc, mergeDom, rev, serial, rawBytes, pdfJsDoc, totalPages, curPage, pageOrder, pageRots,
                 selectedPgs, grid, dropZoneShown, btnsOn, gridBtnsOn, sortableOn, tasks>>

\* the confirmed delete, up to renderGrid's first await; with nothing to render the
\* handler runs through previewMain and its toast at once
DeletePages ==
  /\ CanStart /\ ops' = ops + 1 /\ gridBtnsOn
  /\ selectedPgs # {}
  /\ ~DeleteRefused(Cardinality(selectedPgs), Len(pageOrder))
  /\ pageOrder' = DeleteSelected(pageOrder, selectedPgs)
  /\ selectedPgs' = ClearSelection(selectedPgs)
  /\ totalPages' = Len(pageOrder')
  /\ curPage' = Min(curPage, totalPages')
  /\ IF ~pdfJsDoc.null /\ Len(pageOrder') > 0
     THEN /\ FreeSlots # {}
          /\ grid' = <<>>
          /\ tasks' = Start([GridTask("delete") EXCEPT
                               !.err = GetPageFails(pdfJsDoc, OrderAt(pageOrder', 0)),
                               !.pre = PreNow])
          /\ loadingShown' = TRUE
          /\ UNCHANGED <<toast, gridBtnsOn, sortableOn>>
     ELSE /\ toast' = "success"
          /\ grid' = IF pdfJsDoc.null THEN grid ELSE <<>>
          /\ sortableOn' = IF pdfJsDoc.null THEN sortableOn ELSE TRUE
          /\ gridBtnsOn' = IF pdfJsDoc.null THEN gridBtnsOn ELSE FALSE
          /\ loadingShown' = IF pdfJsDoc.null THEN loadingShown ELSE FALSE
          /\ UNCHANGED tasks
  /\ UNCHANGED <<mergeFiles, mergeJsDocs, mergeCurDoc, mergeDom, rev, serial, rawBytes, pdfJsDoc, pageRots, dropZoneShown, btnsOn>>

(***************************************************************************)
(* rotateSel (script.js 617-629).                                          *)
(***************************************************************************)
RotateSel(deg) ==
  /\ CanStart /\ ops' = ops + 1 /\ gridBtnsOn
  /\ selectedPgs # {}
  /\ pageRots' = RotateAll(pageRots, pageOrder, selectedPgs, deg)
  /\ selectedPgs' = ClearSelection(selectedPgs)
  /\ IF GridAwaits
     THEN /\ FreeSlots # {}
          /\ grid' = <<>>
          /\ tasks' = Start(GridTask("rotate"))
          /\ loadingShown' = TRUE
          /\ UNCHANGED <<toast, gridBtnsOn, curPage, sortableOn>>
     ELSE /\ toast' = "success"
          /\ grid' = IF pdfJsDoc.null THEN grid ELSE <<>>
          /\ sortableOn' = IF pdfJsDoc.null THEN sortableOn ELSE TRUE
          /\ gridBtnsOn' = IF pdfJsDoc.null THEN gridBtnsOn ELSE FALSE
          /\ loadingShown' = IF pdfJsDoc.null THEN loadingShown ELSE FALSE
          /\ curPage' = IF pdfJsDoc.null THEN curPage ELSE ClampPage(curPage, totalPages)
          /\ UNCHANGED tasks
  /\ UNCHANGED <<mergeFiles, mergeJsDocs, mergeCurDoc, mergeDom, rev, serial, rawBytes, pdfJsDoc, totalPages, pageOrder, dropZoneShown,
                 btnsOn>>

(***************************************************************************)
(* splitBtn (script.js 499-520).                                           *)
(***************************************************************************)
\* the range check of the handler, on what parseInt made of the two fields
SplitRefusedUnordered(from, to) ==
  ~IsFinite(from) \/ ~IsFinite(to) \/ JsLess(from, 1) \/ JsLess(totalPages, to)

SplitRefused(from, to) ==
  ~IsFinite(from) \/ ~IsFinite(to) \/ JsLess(from, 1) \/ JsLess(totalPages, to) \/ JsLess(to, from)

\* Array.from({ length: to - from + 1 }, (_, i) => from - 1 + i)
SplitIndicesOneBased(from, to) == [k \in 1..(to - from + 1) |-> from + (k - 1)]

SplitIndices(from, to) == [k \in 1..(to - from + 1) |-> from - 1 + (k - 1)]

SplitRejected(from, to) ==
  /\ CanStart /\ ops' = ops + 1 /\ btnsOn /\ ~rawBytes.null
  /\ SplitRefused(from, to)
  /\ toast' = "error:range"
  /\ UNCHANGED <<loadingShown, mergeFiles, mergeJsDocs, mergeCurDoc, mergeDom, rev, serial, rawBytes, pdfJsDoc, totalPages, curPage, pageOrder,
                 pageRots, selectedPgs, grid, dropZoneShown, btnsOn, gridBtnsOn, sortableOn,
                 tasks>>

\* the range is accepted: up to await PDFDocument.load(S.rawBytes)
SplitStart(from, to) ==
  /\ CanStart /\ ops' = ops + 1 /\ btnsOn /\ ~rawBytes.null
  /\ loadingShown' = TRUE
  /\ ~SplitRefused(from, to)
  /\ FreeSlots # {}
  /\ tasks' = Start([IdleTask EXCEPT !.kind = "split", !.pc = "sp_copy", !.doc = rawBytes,
                                     !.from = from, !.to = to, !.pre = PreNow])
  /\ UNCHANGED <<mergeFiles, mergeJsDocs, mergeCurDoc, mergeDom, rev, serial, rawBytes, pdfJsDoc, totalPages, curPage, pageOrder,
                 pageRots, selectedPgs, grid, dropZoneShown, btnsOn, gridBtnsOn, sortableOn,
                 toast>>

\* load, create and copyPages resolved; the pages are added and save() is called
SplitCopied(t) ==
  /\ tasks[t].kind = "split" /\ tasks[t].pc = "sp_copy"
  /\ OrderValid(SplitIndices(tasks[t].from, tasks[t].to), NumPages(tasks[t].doc))
  /\ tasks' = [tasks EXCEPT
        ![t].pc = "sp_save",
        ![t].pages = CopyPages(tasks[t].doc, SplitIndices(tasks[t].from, tasks[t].to))]
  /\ UNCHANGED <<loadingShown, mergeFiles, mergeJsDocs, mergeCurDoc, mergeDom, ops, rev, serial, rawBytes, pdfJsDoc, totalPages, curPage,
                 pageOrder, pageRots, selectedPgs, grid, dropZoneShown, btnsOn, gridBtnsOn,
                 sortableOn, toast>>

\* save resolved: dlBytes, toast
SplitDone(t) ==
  /\ tasks[t].kind = "split" /\ tasks[t].pc = "sp_save"
  /\ loadingShown' = FALSE
  /\ toast' = "success"
  /\ tasks' = Finish(t)
  /\ UNCHANGED <<mergeFiles, mergeJsDocs, mergeCurDoc, mergeDom, ops, rev, serial, rawBytes, pdfJsDoc, totalPages, curPage,
                 pageOrder, pageRots, selectedPgs, grid, dropZoneShown, btnsOn, gridBtnsOn,
                 sortableOn>>

(***************************************************************************)
(* The merge list and mergeBtn (script.js 368-449, 465-488).               *)
(* S.mergeCurPg is left out: no handler reads it to decide the list or the *)
(* previewed document.                                                     *)
(***************************************************************************)
\* updateMergeList (script.js 368-393), refreshMergeList (part_000 371-397):
\* one list item per file, each with its preview and remove button, and the
\* two document buttons, disabled at the ends of the list
updateMergeList(files, docs, cur) ==
  [prevOn |-> ~(cur <= 0), nextOn |-> ~(cur >= Len(docs) - 1), items |-> Len(files)]

\* files addMergeFiles handlers in flight have still to push
RECURSIVE PendingFiles(_)
PendingFiles(S) ==
  IF S = {} THEN 0
  ELSE LET t == CHOOSE x \in S : TRUE
       IN Len(tasks[t].files) + PendingFiles(S \ {t})

\* mergeInput change / drop: up to the first file's arrayBuffer() and getDocument
AddMergeFiles(fs) ==
  /\ CanStart /\ ops' = ops + 1
  /\ loadingShown' = TRUE
  /\ FreeSlots # {}
  /\ Len(mergeFiles) + PendingFiles(Slots) + Len(fs) <= MaxMerge
  /\ tasks' = Start([IdleTask EXCEPT !.kind = "addmerge", !.pc = "am_file", !.files = fs])
  /\ UNCHANGED <<mergeFiles, mergeJsDocs, mergeCurDoc, mergeDom, rev, serial, rawBytes, pdfJsDoc, totalPages, curPage, pageOrder,
                 pageRots, selectedPgs, grid, dropZoneShown, btnsOn, gridBtnsOn, sortableOn,
                 toast>>

\* a file is read and parsed: it is pushed, and the loop goes on to the next file
\* or, after the last one, to renderMergePreview
AddMergeRead(t) ==
  /\ tasks[t].pc = "am_file"
  /\ mergeFiles' = Append(mergeFiles, Head(tasks[t].files))
  /\ mergeJsDocs' = Append(mergeJsDocs, Head(tasks[t].files))
  /\ IF Len(tasks[t].files) = 1
     THEN /\ mergeCurDoc' = Max(0, Len(mergeFiles') - 1)
          /\ mergeDom' = IF rev = "v3"
                         THEN updateMergeList(mergeFiles', mergeJsDocs', mergeCurDoc')
                         ELSE mergeDom
     ELSE UNCHANGED <<mergeCurDoc, mergeDom>>
  /\ tasks' = [tasks EXCEPT
        ![t].files = Tail(@),
        ![t].pc = IF Len(tasks[t].files) = 1 THEN "am_preview" ELSE "am_file"]
  /\ UNCHANGED <<loadingShown, ops, rev, serial, rawBytes, pdfJsDoc, totalPages, curPage, pageOrder,
                 pageRots, selectedPgs, grid, dropZoneShown, btnsOn, gridBtnsOn, sortableOn,
                 toast>>

\* the preview is drawn: renderMergePreview ends with the list refresh (and the
\* later revision refreshes once more); finally
AddMergeDone(t) ==
  /\ tasks[t].pc = "am_preview"
  /\ loadingShown' = FALSE
  /\ mergeDom' = updateMergeList(mergeFiles, mergeJsDocs, mergeCurDoc)
  /\ tasks' = Finish(t)
  /\ UNCHANGED <<mergeFiles, mergeJsDocs, mergeCurDoc, ops, rev, serial, rawBytes, pdfJsDoc, totalPages, curPage,
                 pageOrder, pageRots, selectedPgs, grid, dropZoneShown, btnsOn, gridBtnsOn,
                 sortableOn, toast>>

\* arrayBuffer, getDocument or the preview rejected: catch, finally; the files
\* pushed so far stay on the list
AddMergeFailed(t) ==
  /\ tasks[t].pc \in {"am_file", "am_preview"}
  /\ loadingShown' = FALSE
  /\ toast' = "error:load"
  /\ tasks' = Finish(t)
  /\ UNCHANGED <<mergeFiles, mergeJsDocs, mergeCurDoc, mergeDom, ops, rev, serial, rawBytes, pdfJsDoc, totalPages, curPage,
                 pageOrder, pageRots, selectedPgs, grid, dropZoneShown, btnsOn, gridBtnsOn,
                 sortableOn>>

\* renderMergePreview up to its first await: with no document on the list, or
\* none at the cursor (if (!doc) return), it returns; otherwise getPage is called
PreviewStarts(docs, cur) == Len(docs) > 0 /\ cur >= 0 /\ cur < Len(docs)

\* renderMergePreview() called and not awaited by a click handler: the draw goes
\* on in the background.  getPage and render resolve in turn; nothing of the
\* session state is read or written between them.
PreviewCall(docs, cur) ==
  IF PreviewStarts(docs, cur)
  THEN Start([IdleTask EXCEPT !.kind = "mpreview", !.pc = "mp_draw"])
  ELSE tasks

\* the list refresh a document-button click makes before it returns: the v3
\* handlers call updateMergeList(); the later ones leave it to renderMergePreview,
\* which refreshes at once only when the list is empty
NavRefresh(docs, cur) ==
  IF rev = "v3" \/ Len(docs) = 0
  THEN updateMergeList(mergeFiles, docs, cur)
  ELSE mergeDom

\* the remove button of list item i
removeMergeFile(i) ==
  /\ CanStart /\ ops' = ops + 1
  /\ i < mergeDom.items
  /\ mergeFiles' = SpliceOut(mergeFiles, i)
  /\ mergeJsDocs' = SpliceOut(mergeJsDocs, i)
  /\ mergeCurDoc' = Max(0, Min(mergeCurDoc, Len(mergeFiles') - 1))
  /\ mergeDom' = updateMergeList(mergeFiles', mergeJsDocs', mergeCurDoc')
  /\ PreviewStarts(mergeJsDocs', mergeCurDoc') => FreeSlots # {}
  /\ tasks' = PreviewCall(mergeJsDocs', mergeCurDoc')
  /\ UNCHANGED <<loadingShown, rev, serial, rawBytes, pdfJsDoc, totalPages, curPage, pageOrder,
                 pageRots, selectedPgs, grid, dropZoneShown, btnsOn, gridBtnsOn, sortableOn,
                 toast>>

\* the preview button of list item i (switchMergeDoc in the later revision)
previewMergeDoc(i) ==
  /\ CanStart /\ ops' = ops + 1
  /\ i < mergeDom.items
  /\ mergeCurDoc' = i
  /\ mergeDom' = updateMergeList(mergeFiles, mergeJsDocs, mergeCurDoc')
  /\ PreviewStarts(mergeJsDocs, mergeCurDoc') => FreeSlots # {}
  /\ tasks' = PreviewCall(mergeJsDocs, mergeCurDoc')
  /\ UNCHANGED <<loadingShown, mergeFiles, mergeJsDocs, rev, serial, rawBytes, pdfJsDoc,
                 totalPages, curPage, pageOrder, pageRots, selectedPgs, grid, dropZoneShown,
                 btnsOn, gridBtnsOn, sortableOn, toast>>

\* #mergePrevDoc click: the button is clickable as the last refresh left it
mergePrevDoc ==
  /\ CanStart /\ ops' = ops + 1
  /\ mergeDom.prevOn
  /\ mergeCurDoc' = mergeCurDoc - 1
  /\ mergeDom' = NavRefresh(mergeJsDocs, mergeCurDoc')
  /\ PreviewStarts(mergeJsDocs, mergeCurDoc') => FreeSlots # {}
  /\ tasks' = PreviewCall(mergeJsDocs, mergeCurDoc')
  /\ UNCHANGED <<loadingShown, mergeFiles, mergeJsDocs, rev, serial, rawBytes, pdfJsDoc,
                 totalPages, curPage, pageOrder, pageRots, selectedPgs, grid, dropZoneShown,
                 btnsOn, gridBtnsOn, sortableOn, toast>>

\* #mergeNextDoc click
mergeNextDoc ==
  /\ CanStart /\ ops' = ops + 1
  /\ mergeDom.nextOn
  /\ mergeCurDoc' = mergeCurDoc + 1
  /\ mergeDom' = NavRefresh(mergeJsDocs, mergeCurDoc')
  /\ PreviewStarts(mergeJsDocs, mergeCurDoc') => FreeSlots # {}
  /\ tasks' = PreviewCall(mergeJsDocs, mergeCurDoc')
  /\ UNCHANGED <<loadingShown, mergeFiles, mergeJsDocs, rev, serial, rawBytes, pdfJsDoc,
                 totalPages, curPage, pageOrder, pageRots, selectedPgs, grid, dropZoneShown,
                 btnsOn, gridBtnsOn, sortableOn, toast>>

\* a background draw finished: renderMergePreview ends with the list refresh,
\* made from the list and the cursor as they are now
renderMergePreviewDone(t) ==
  /\ tasks[t].pc = "mp_draw"
  /\ mergeDom' = updateMergeList(mergeFiles, mergeJsDocs, mergeCurDoc)
  /\ tasks' = Finish(t)
  /\ UNCHANGED <<loadingShown, mergeFiles, mergeJsDocs, mergeCurDoc, ops, rev, serial, rawBytes,
                 pdfJsDoc, totalPages, curPage, pageOrder, pageRots, selectedPgs, grid,
                 dropZoneShown, btnsOn, gridBtnsOn, sortableOn, toast>>

\* getPage or render rejected: nobody awaits the promise, and nothing is refreshed
renderMergePreviewFailed(t) ==
  /\ tasks[t].pc = "mp_draw"
  /\ tasks' = Finish(t)
  /\ UNCHANGED <<loadingShown, mergeFiles, mergeJsDocs, mergeCurDoc, mergeDom, ops, rev, serial,
                 rawBytes, pdfJsDoc, totalPages, curPage, pageOrder, pageRots, selectedPgs, grid,
                 dropZoneShown, btnsOn, gridBtnsOn, sortableOn, toast>>

\* PDFDocument.load(await f.arrayBuffer()): the document merge reads for entry f
MergeLoadSnapshot(f) == IF rawBytes.null THEN f ELSE rawBytes

MergeLoad(f) == f

\* copyPages(doc, doc.getPageIndices()) and addPage of each copy
MergePrepend(pages, doc) == doc.pages \o pages

MergeAppend(pages, doc) == pages \o doc.pages

\* the handler's guard: if (S.mergeFiles.length < 2) return.  updateMergeList
\* disables the button while the list is short; the handler does not rely on it.
MergeRejected ==
  /\ CanStart /\ ops' = ops + 1
  /\ Len(mergeFiles) < 2
  /\ UNCHANGED <<loadingShown, mergeFiles, mergeJsDocs, mergeCurDoc, mergeDom, rev, serial, rawBytes, pdfJsDoc, totalPages, curPage, pageOrder,
                 pageRots, selectedPgs, grid, dropZoneShown, btnsOn, gridBtnsOn, sortableOn,
                 toast, tasks>>

\* up to await PDFDocument.create()
MergeStart ==
  /\ CanStart /\ ops' = ops + 1
  /\ loadingShown' = TRUE
  /\ Len(mergeFiles) >= 2
  /\ FreeSlots # {}
  /\ tasks' = Start([IdleTask EXCEPT !.kind = "merge", !.pc = "mg_file", !.pre = PreNow])
  /\ UNCHANGED <<mergeFiles, mergeJsDocs, mergeCurDoc, mergeDom, rev, serial, rawBytes, pdfJsDoc, totalPages, curPage, pageOrder,
                 pageRots, selectedPgs, grid, dropZoneShown, btnsOn, gridBtnsOn, sortableOn,
                 toast>>

\* for (const f of S.mergeFiles): the iterator reads the list as it is now; one
\* file is loaded, copied and added, or the loop ends and save() is called
MergeFile(t) ==
  /\ tasks[t].pc = "mg_file"
  /\ tasks' = IF tasks[t].i < Len(mergeFiles)
              THEN [tasks EXCEPT
                      ![t].i = @ + 1,
                      ![t].pages = MergeAppend(@, MergeLoad(mergeFiles[tasks[t].i + 1]))]
              ELSE [tasks EXCEPT ![t].pc = "mg_save"]
  /\ UNCHANGED <<loadingShown, mergeFiles, mergeJsDocs, mergeCurDoc, mergeDom, ops, rev, serial, rawBytes, pdfJsDoc, totalPages, curPage,
                 pageOrder, pageRots, selectedPgs, grid, dropZoneShown, btnsOn, gridBtnsOn,
                 sortableOn, toast>>

\* save resolved: dlBytes, toast
MergeDone(t) ==
  /\ tasks[t].pc = "mg_save"
  /\ loadingShown' = FALSE
  /\ toast' = "success"
  /\ tasks' = Finish(t)
  /\ UNCHANGED <<mergeFiles, mergeJsDocs, mergeCurDoc, mergeDom, ops, rev, serial, rawBytes, pdfJsDoc, totalPages, curPage,
                 pageOrder, pageRots, selectedPgs, grid, dropZoneShown, btnsOn, gridBtnsOn,
                 sortableOn>>

(***************************************************************************)
(* The minimal revision (src/unnamed/part_001): one current page; delete   *)
(* and rotate act on it, download rebuilds.  It shows no overlay while a   *)
(* handler awaits, so its handlers interleave.  S.pdfPreview is pdfJsDoc,  *)
(* S.pageCount is totalPages, S.rotations is pageRots, S.currentPage is    *)
(* curPage; toast records the alert and the download.                      *)
(***************************************************************************)
\* S.pageOrder.filter(Number.isInteger)
normalizePageOrder(order) == SelectSeq(order, LAMBDA i : i # Undefined)

\* S.pageOrder.filter(i => i !== indexToRemove)
FilterOut(order, indexToRemove) == SelectSeq(order, LAMBDA i : i # indexToRemove)

\* copiedPages.forEach: if (rotation) page.setRotation(degrees(rotation))
setRotation(pages, order, rots) ==
  [k \in 1..Len(pages) |->
     LET rotation == RotOf(rots, OrderAt(order, k - 1))
     IN IF rotation # 0
        THEN [pages[k] EXCEPT !.rot = <<rotation>>]
        ELSE pages[k]]

\* the guard of the deletePage listener: if (!S.pageOrder.length) return
deletePageRefuses(order, indexToRemove) == Len(order) = 0

\* pdfUpload change: up to await file.arrayBuffer()
pdfUpload(f) ==
  /\ ops < MaxClicks /\ ops' = ops + 1 /\ FreeSlots # {}
  /\ tasks' = Start([IdleTask EXCEPT !.kind = "upload", !.pc = "up_read", !.doc = f,
                                     !.pre = PreNow])
  /\ UNCHANGED <<loadingShown, mergeFiles, mergeJsDocs, mergeCurDoc, mergeDom, rev, serial, rawBytes, pdfJsDoc, totalPages, curPage,
                 pageOrder, pageRots, selectedPgs, grid, dropZoneShown, btnsOn, gridBtnsOn,
                 sortableOn, toast>>

\* arrayBuffer() resolved: S.rawBytes is assigned, getDocument is awaited
pdfUploadRead(t) ==
  /\ tasks[t].pc = "up_read"
  /\ rawBytes' = tasks[t].doc
  /\ tasks' = [tasks EXCEPT ![t].pc = "up_parse"]
  /\ UNCHANGED <<loadingShown, mergeFiles, mergeJsDocs, mergeCurDoc, mergeDom, ops, rev, serial, pdfJsDoc, totalPages, curPage,
                 pageOrder, pageRots, selectedPgs, grid, dropZoneShown, btnsOn, gridBtnsOn,
                 sortableOn, toast>>

\* getDocument resolved: the reset, renderThumbnails (which attaches the
\* Sortable) and enableControls(true)
pdfUploadParsed(t) ==
  /\ tasks[t].pc = "up_parse"
  /\ pdfJsDoc' = tasks[t].doc
  /\ totalPages' = NumPages(tasks[t].doc)
  /\ pageOrder' = IdentityOrder(totalPages')
  /\ pageRots' = EmptyRots
  /\ curPage' = 1
  /\ sortableOn' = TRUE
  /\ btnsOn' = TRUE
  /\ tasks' = Finish(t)
  /\ UNCHANGED <<loadingShown, mergeFiles, mergeJsDocs, mergeCurDoc, mergeDom, ops, rev, serial, rawBytes, selectedPgs, grid,
                 dropZoneShown, gridBtnsOn, toast>>

\* getDocument rejected: the listener ends on the rejection
pdfUploadFailed(t) ==
  /\ tasks[t].pc = "up_parse"
  /\ tasks' = Finish(t)
  /\ UNCHANGED <<loadingShown, mergeFiles, mergeJsDocs, mergeCurDoc, mergeDom, ops, rev, serial, rawBytes, pdfJsDoc, totalPages,
                 curPage, pageOrder, pageRots, selectedPgs, grid, dropZoneShown, btnsOn,
                 gridBtnsOn, sortableOn, toast>>

\* a thumbnail is clicked: S.currentPage = pageIndex + 1, the original page
thumbClick(i) ==
  /\ ops < MaxClicks /\ ops' = ops + 1
  /\ i \in 0..(Len(pageOrder) - 1)
  /\ curPage' = OrderAt(pageOrder, i) + 1
  /\ curPage' # curPage
  /\ UNCHANGED <<loadingShown, mergeFiles, mergeJsDocs, mergeCurDoc, mergeDom, rev, serial, rawBytes, pdfJsDoc, totalPages, pageOrder,
                 pageRots, selectedPgs, grid, dropZoneShown, btnsOn, gridBtnsOn, sortableOn,
                 toast, tasks>>

\* Sortable onEnd of renderThumbnails: the two splices, normalizePageOrder
onEnd(oldIndex, newIndex) ==
  /\ ops < MaxClicks /\ ops' = ops + 1 /\ sortableOn
  /\ oldIndex \in 0..(Len(pageOrder) - 1) /\ newIndex \in 0..(Len(pageOrder) - 1)
  /\ oldIndex # newIndex
  /\ pageOrder' = normalizePageOrder(Reorder(pageOrder, oldIndex, newIndex))
  /\ UNCHANGED <<loadingShown, mergeFiles, mergeJsDocs, mergeCurDoc, mergeDom, rev, serial, rawBytes, pdfJsDoc, totalPages, curPage,
                 pageRots, selectedPgs, grid, dropZoneShown, btnsOn, gridBtnsOn, sortableOn,
                 toast, tasks>>

\* deletePage click
deletePage ==
  /\ ops < MaxClicks /\ ops' = ops + 1 /\ btnsOn
  /\ ~deletePageRefuses(pageOrder, curPage - 1)
  /\ pageOrder' = normalizePageOrder(FilterOut(pageOrder, curPage - 1))
  /\ curPage' = IF curPage > Len(pageOrder') THEN Len(pageOrder') ELSE curPage
  /\ UNCHANGED <<loadingShown, mergeFiles, mergeJsDocs, mergeCurDoc, mergeDom, rev, serial, rawBytes, pdfJsDoc, totalPages, pageRots,
                 selectedPgs, grid, dropZoneShown, btnsOn, gridBtnsOn, sortableOn, toast,
                 tasks>>

\* rotatePage click
rotatePage ==
  /\ ops < MaxClicks /\ ops' = ops + 1 /\ btnsOn
  /\ pageRots' = PutRot(pageRots, curPage - 1, (RotOf(pageRots, curPage - 1) + 90) % 360)
  /\ UNCHANGED <<loadingShown, mergeFiles, mergeJsDocs, mergeCurDoc, mergeDom, rev, serial, rawBytes, pdfJsDoc, totalPages, curPage,
                 pageOrder, selectedPgs, grid, dropZoneShown, btnsOn, gridBtnsOn, sortableOn,
                 toast, tasks>>

\* prevPage / nextPage click
turnPage(d) ==
  /\ ops < MaxClicks /\ ops' = ops + 1 /\ btnsOn
  /\ IF d < 0 THEN ~(curPage <= 1) ELSE ~(curPage >= totalPages)
  /\ curPage' = curPage + d
  /\ UNCHANGED <<loadingShown, mergeFiles, mergeJsDocs, mergeCurDoc, mergeDom, rev, serial, rawBytes, pdfJsDoc, totalPages, pageOrder,
                 pageRots, selectedPgs, grid, dropZoneShown, btnsOn, gridBtnsOn, sortableOn,
                 toast, tasks>>

\* downloadBtn click: rebuild() up to await PDFDocument.load(S.rawBytes); the
\* strict validation alerts and returns
rebuild ==
  /\ ops < MaxClicks /\ ops' = ops + 1 /\ btnsOn /\ ~rawBytes.null
  /\ IF OrderValid(pageOrder, totalPages)
     THEN /\ FreeSlots # {}
          /\ tasks' = Start([IdleTask EXCEPT !.kind = "rebuild", !.pc = "mr_copy",
                                             !.doc = rawBytes, !.order = pageOrder,
                                             !.pre = PreNow])
          /\ toast' = toast
     ELSE /\ toast' = "error:corrupt"
          /\ tasks' = tasks
  /\ UNCHANGED <<loadingShown, mergeFiles, mergeJsDocs, mergeCurDoc, mergeDom, rev, serial, rawBytes, pdfJsDoc, totalPages, curPage,
                 pageOrder, pageRots, selectedPgs, grid, dropZoneShown, btnsOn, gridBtnsOn,
                 sortableOn>>

\* load, create and copyPages resolved: the forEach sets rotations from
\* S.rotations as it is now and adds the pages; save() is awaited
rebuildCopied(t) ==
  /\ tasks[t].pc = "mr_copy"
  /\ OrderValid(tasks[t].order, NumPages(tasks[t].doc))
  /\ tasks' = [tasks EXCEPT
        ![t].pc = "mr_save",
        ![t].pages = setRotation(CopyPages(tasks[t].doc, tasks[t].order), tasks[t].order,
                                 pageRots)]
  /\ UNCHANGED <<loadingShown, mergeFiles, mergeJsDocs, mergeCurDoc, mergeDom, ops, rev, serial, rawBytes, pdfJsDoc, totalPages,
                 curPage, pageOrder, pageRots, selectedPgs, grid, dropZoneShown, btnsOn,
                 gridBtnsOn, sortableOn, toast>>

\* save resolved: the blob is downloaded
rebuildSaved(t) ==
  /\ tasks[t].pc = "mr_save"
  /\ toast' = "success"
  /\ tasks' = Finish(t)
  /\ UNCHANGED <<loadingShown, mergeFiles, mergeJsDocs, mergeCurDoc, mergeDom, ops, rev, serial, rawBytes, pdfJsDoc, totalPages,
                 curPage, pageOrder, pageRots, selectedPgs, grid, dropZoneShown, btnsOn,
                 gridBtnsOn, sortableOn>>

\* a codec call rejected: rebuild has no catch, the listener ends on the rejection
rebuildFailed(t) ==
  /\ tasks[t].pc \in {"mr_copy", "mr_save"}
  /\ tasks' = Finish(t)
  /\ UNCHANGED <<loadingShown, mergeFiles, mergeJsDocs, mergeCurDoc, mergeDom, ops, rev, serial, rawBytes, pdfJsDoc, totalPages,
                 curPage, pageOrder, pageRots, selectedPgs, grid, dropZoneShown, btnsOn,
                 gridBtnsOn, sortableOn, toast>>

(***************************************************************************)
(* The first revision (src/unnamed/part_000 837-1806): getRebuildBytes and *)
(* reloadFromBytes.  state.pageRotations is pageRots, state.selectedPages  *)
(* is selectedPgs, state.currentPreviewPage is curPage; state.pdfDoc is    *)
(* set exactly when rawBytes is.  setLoading(true) covers the page while a *)
(* handler awaits, so its handlers run one at a time.                      *)
(***************************************************************************)
\* copiedPages.forEach of getRebuildBytes: page.getRotation().angle is read
\* without a guard, so a page without a rotation entry throws
getRebuildBytesThrows(src, order, rots) ==
  \/ src.null
  \/ ~OrderValid(order, NumPages(src))
  \/ \E k \in 1..Len(order) :
       RotOf(rots, order[k]) # 0 /\ src.pages[order[k] + 1].rot = <<>>

\* the pages getRebuildBytes saves: copies in pageOrder's sequence, each with
\* (current + addedRotation) % 360 when addedRotation is not 0
getRebuildBytes(src, order, rots) ==
  [k \in 1..Len(order) |->
     LET page == src.pages[order[k] + 1]
         addedRotation == RotOf(rots, order[k])
     IN IF addedRotation # 0
        THEN [page EXCEPT !.rot = <<JsRem(page.rot[1] + addedRotation, 360)>>]
        ELSE page]

\* reloadFromBytes' reset: only if (state.pageOrder.length !== state.totalPages)
reloadOrder(order, n) == IF Len(order) # n THEN IdentityOrder(n) ELSE order

reloadRots(order, rots, n) == IF Len(order) # n THEN EmptyRots ELSE rots

\* handleFileUpload up to await PDFDocument.load(bytes)
handleFileUpload(f) ==
  /\ ops < MaxFirstOps /\ ops' = ops + 1 /\ AllIdle
  /\ loadingShown' = TRUE
  /\ tasks' = Start([IdleTask EXCEPT !.kind = "load", !.pc = "fu_load", !.doc = f,
                                     !.pre = PreNow])
  /\ UNCHANGED <<mergeFiles, mergeJsDocs, mergeCurDoc, mergeDom, rev, serial, rawBytes, pdfJsDoc, totalPages, curPage, pageOrder,
                 pageRots, selectedPgs, grid, dropZoneShown, btnsOn, gridBtnsOn, sortableOn,
                 toast>>

\* PDFDocument.load resolved: state.pdfDoc and state.rawBytes are assigned,
\* getDocument is awaited
handleFileUploadLoaded(t) ==
  /\ tasks[t].pc = "fu_load"
  /\ rawBytes' = tasks[t].doc
  /\ tasks' = [tasks EXCEPT ![t].pc = "fu_parse"]
  /\ UNCHANGED <<loadingShown, mergeFiles, mergeJsDocs, mergeCurDoc, mergeDom, ops, rev, serial, pdfJsDoc, totalPages, curPage,
                 pageOrder, pageRots, selectedPgs, grid, dropZoneShown, btnsOn, gridBtnsOn,
                 sortableOn, toast>>

\* getDocument resolved: the reset, enableToolButtons, renderPreview up to its
\* await of getPage
handleFileUploadParsed(t) ==
  /\ tasks[t].pc = "fu_parse"
  /\ pdfJsDoc' = tasks[t].doc
  /\ totalPages' = NumPages(tasks[t].doc)
  /\ pageOrder' = IdentityOrder(totalPages')
  /\ pageRots' = EmptyRots
  /\ selectedPgs' = {}
  /\ curPage' = 1
  /\ btnsOn' = TRUE
  /\ tasks' = [tasks EXCEPT ![t].pc = "fu_preview"]
  /\ UNCHANGED <<loadingShown, mergeFiles, mergeJsDocs, mergeCurDoc, mergeDom, ops, rev, serial, rawBytes, grid, dropZoneShown,
                 gridBtnsOn, sortableOn, toast>>

\* renderPreview resolved: the success toast, setLoading(false)
handleFileUploadDone(t) ==
  /\ tasks[t].pc = "fu_preview"
  /\ ~GetPageFails(pdfJsDoc, OrderAt(pageOrder, curPage - 1))
  /\ toast' = "success"
  /\ loadingShown' = FALSE
  /\ tasks' = Finish(t)
  /\ UNCHANGED <<mergeFiles, mergeJsDocs, mergeCurDoc, mergeDom, ops, rev, serial, rawBytes, pdfJsDoc, totalPages, curPage,
                 pageOrder, pageRots, selectedPgs, grid, dropZoneShown, btnsOn, gridBtnsOn,
                 sortableOn>>

\* an await of handleFileUpload rejected: catch, finally
handleFileUploadFailed(t) ==
  /\ tasks[t].pc \in {"fu_load", "fu_parse", "fu_preview"}
  /\ toast' = "error:load"
  /\ loadingShown' = FALSE
  /\ tasks' = Finish(t)
  /\ UNCHANGED <<mergeFiles, mergeJsDocs, mergeCurDoc, mergeDom, ops, rev, serial, rawBytes, pdfJsDoc, totalPages, curPage,
                 pageOrder, pageRots, selectedPgs, grid, dropZoneShown, btnsOn, gridBtnsOn,
                 sortableOn>>

\* a thumbnail of the page grid is clicked: its order index joins or leaves
\* state.selectedPages
thumbSelect(i) ==
  /\ ops < MaxFirstOps /\ ops' = ops + 1 /\ AllIdle /\ ~pdfJsDoc.null
  /\ i \in 0..(Len(pageOrder) - 1)
  /\ selectedPgs' = IF i \in selectedPgs THEN selectedPgs \ {i} ELSE selectedPgs \cup {i}
  /\ UNCHANGED <<loadingShown, mergeFiles, mergeJsDocs, mergeCurDoc, mergeDom, rev, serial, rawBytes, pdfJsDoc, totalPages, curPage,
                 pageOrder, pageRots, grid, dropZoneShown, btnsOn, gridBtnsOn, sortableOn, toast,
                 tasks>>

\* Sortable onEnd of renderPageGrid: the two splices, selectedPages.clear()
gridOnEnd(oldIndex, newIndex) ==
  /\ ops < MaxFirstOps /\ ops' = ops + 1 /\ AllIdle /\ ~pdfJsDoc.null
  /\ oldIndex \in 0..(Len(pageOrder) - 1) /\ newIndex \in 0..(Len(pageOrder) - 1)
  /\ oldIndex # newIndex
  /\ pageOrder' = Reorder(pageOrder, oldIndex, newIndex)
  /\ selectedPgs' = {}
  /\ toast' = "info"
  /\ UNCHANGED <<loadingShown, mergeFiles, mergeJsDocs, mergeCurDoc, mergeDom, rev, serial, rawBytes, pdfJsDoc, totalPages, curPage,
                 pageRots, grid, dropZoneShown, btnsOn, gridBtnsOn, sortableOn, tasks>>

\* deleteSelectedBtn click, confirmed: the refusal, or the descending splices
deleteSelectedBtn ==
  /\ ops < MaxFirstOps /\ ops' = ops + 1 /\ AllIdle
  /\ selectedPgs # {}
  /\ IF Cardinality(selectedPgs) >= Len(pageOrder)
     THEN /\ toast' = "error:delete"
          /\ UNCHANGED <<pageOrder, selectedPgs, totalPages>>
     ELSE /\ pageOrder' = DeleteSelected(pageOrder, selectedPgs)
          /\ selectedPgs' = {}
          /\ totalPages' = Len(pageOrder')
          /\ toast' = "success"
  /\ UNCHANGED <<loadingShown, mergeFiles, mergeJsDocs, mergeCurDoc, mergeDom, rev, serial, rawBytes, pdfJsDoc, curPage, pageRots,
                 grid, dropZoneShown, btnsOn, gridBtnsOn, sortableOn, tasks>>

\* rotateLeftBtn / rotateRightBtn click: rotateSelected(degrees)
rotateSelected(degrees) ==
  /\ ops < MaxFirstOps /\ ops' = ops + 1 /\ AllIdle
  /\ selectedPgs # {}
  /\ pageRots' = [x \in (DOMAIN pageRots) \cup {pageOrder[i + 1] : i \in selectedPgs} |->
                    IF \E i \in selectedPgs : pageOrder[i + 1] = x
                    THEN (RotOf(pageRots, x) + degrees + 360) % 360
                    ELSE pageRots[x]]
  /\ selectedPgs' = {}
  /\ toast' = "success"
  /\ UNCHANGED <<loadingShown, mergeFiles, mergeJsDocs, mergeCurDoc, mergeDom, rev, serial, rawBytes, pdfJsDoc, totalPages, curPage,
                 pageOrder, grid, dropZoneShown, btnsOn, gridBtnsOn, sortableOn, tasks>>

\* addTextBtn click with a text and a page in range: up to the await inside
\* getRebuildBytes
addTextBtn(pageNum) ==
  /\ ops < MaxFirstOps /\ ops' = ops + 1 /\ AllIdle /\ ~rawBytes.null
  /\ pageNum \in 1..totalPages
  /\ Overlays(rawBytes) < MaxOverlays
  /\ loadingShown' = TRUE
  /\ tasks' = Start([IdleTask EXCEPT !.kind = "edit", !.pc = "g1_copy", !.pg = pageNum,
                                     !.doc = rawBytes, !.pre = PreNow])
  /\ UNCHANGED <<mergeFiles, mergeJsDocs, mergeCurDoc, mergeDom, rev, serial, rawBytes, pdfJsDoc, totalPages, curPage, pageOrder,
                 pageRots, selectedPgs, grid, dropZoneShown, btnsOn, gridBtnsOn, sortableOn,
                 toast>>

\* downloadBtn click: up to the await inside getRebuildBytes
downloadBtn ==
  /\ ops < MaxFirstOps /\ ops' = ops + 1 /\ AllIdle /\ ~rawBytes.null
  /\ loadingShown' = TRUE
  /\ tasks' = Start([IdleTask EXCEPT !.kind = "download", !.pc = "g1_copy",
                                     !.doc = rawBytes, !.pre = PreNow])
  /\ UNCHANGED <<mergeFiles, mergeJsDocs, mergeCurDoc, mergeDom, rev, serial, rawBytes, pdfJsDoc, totalPages, curPage, pageOrder,
                 pageRots, selectedPgs, grid, dropZoneShown, btnsOn, gridBtnsOn, sortableOn,
                 toast>>

\* load, create and copyPages of getRebuildBytes resolved: the forEach adds
\* the rotated copies; newDoc.save() is awaited
getRebuildBytesCopied(t) ==
  /\ tasks[t].pc = "g1_copy"
  /\ ~getRebuildBytesThrows(tasks[t].doc, pageOrder, pageRots)
  /\ tasks' = [tasks EXCEPT ![t].pc = "g1_save", ![t].order = pageOrder,
                            ![t].pages = getRebuildBytes(tasks[t].doc, pageOrder, pageRots)]
  /\ UNCHANGED <<loadingShown, mergeFiles, mergeJsDocs, mergeCurDoc, mergeDom, ops, rev, serial, rawBytes, pdfJsDoc, totalPages,
                 curPage, pageOrder, pageRots, selectedPgs, grid, dropZoneShown, btnsOn,
                 gridBtnsOn, sortableOn, toast>>

\* getRebuildBytes resolved in addTextBtn: the baseline is reopened, the text
\* is drawn on pages[pageNum - 1]; doc.save() is awaited
addTextDrawn(t) ==
  /\ tasks[t].kind = "edit" /\ tasks[t].pc = "g1_save"
  /\ tasks[t].pg <= Len(tasks[t].pages)
  /\ tasks' = [tasks EXCEPT ![t].pc = "e1_save",
                            ![t].doc = DrawOverlay(Bytes(tasks[t].pages), tasks[t].pg)]
  /\ UNCHANGED <<loadingShown, mergeFiles, mergeJsDocs, mergeCurDoc, mergeDom, ops, rev, serial, rawBytes, pdfJsDoc, totalPages,
                 curPage, pageOrder, pageRots, selectedPgs, grid, dropZoneShown, btnsOn,
                 gridBtnsOn, sortableOn, toast>>

\* doc.save() resolved: reloadFromBytes assigns state.rawBytes, then awaits
\* PDFDocument.load and getDocument
reloadFromBytes(t) ==
  /\ tasks[t].pc = "e1_save"
  /\ rawBytes' = tasks[t].doc
  /\ tasks' = [tasks EXCEPT ![t].pc = "r1_parse"]
  /\ UNCHANGED <<loadingShown, mergeFiles, mergeJsDocs, mergeCurDoc, mergeDom, ops, rev, serial, pdfJsDoc, totalPages, curPage,
                 pageOrder, pageRots, selectedPgs, grid, dropZoneShown, btnsOn, gridBtnsOn,
                 sortableOn, toast>>

\* getDocument resolved in reloadFromBytes: totalPages, the conditional
\* reset, renderPreview up to its await of getPage
reloadFromBytesParsed(t) ==
  /\ tasks[t].pc = "r1_parse"
  /\ pdfJsDoc' = tasks[t].doc
  /\ totalPages' = NumPages(tasks[t].doc)
  /\ pageOrder' = reloadOrder(pageOrder, totalPages')
  /\ pageRots' = reloadRots(pageOrder, pageRots, totalPages')
  /\ curPage' = Max(1, Min(curPage, totalPages'))
  /\ tasks' = [tasks EXCEPT ![t].pc = "r1_preview"]
  /\ UNCHANGED <<loadingShown, mergeFiles, mergeJsDocs, mergeCurDoc, mergeDom, ops, rev, serial, rawBytes, selectedPgs, grid,
                 dropZoneShown, btnsOn, gridBtnsOn, sortableOn, toast>>

\* renderPreview resolved: the success toast, setLoading(false)
addTextDone(t) ==
  /\ tasks[t].pc = "r1_preview"
  /\ ~GetPageFails(pdfJsDoc, OrderAt(pageOrder, curPage - 1))
  /\ toast' = "success"
  /\ loadingShown' = FALSE
  /\ tasks' = Finish(t)
  /\ UNCHANGED <<mergeFiles, mergeJsDocs, mergeCurDoc, mergeDom, ops, rev, serial, rawBytes, pdfJsDoc, totalPages, curPage,
                 pageOrder, pageRots, selectedPgs, grid, dropZoneShown, btnsOn, gridBtnsOn,
                 sortableOn>>

\* an await of addTextBtn rejected: catch, finally
addTextFailed(t) ==
  /\ tasks[t].kind = "edit"
  /\ tasks[t].pc \in {"g1_copy", "g1_save", "e1_save", "r1_parse", "r1_preview"}
  /\ toast' = "error:edit"
  /\ loadingShown' = FALSE
  /\ tasks' = Finish(t)
  /\ UNCHANGED <<mergeFiles, mergeJsDocs, mergeCurDoc, mergeDom, ops, rev, serial, rawBytes, pdfJsDoc, totalPages, curPage,
                 pageOrder, pageRots, selectedPgs, grid, dropZoneShown, btnsOn, gridBtnsOn,
                 sortableOn>>

\* getRebuildBytes resolved in downloadBtn: downloadBytes, the success toast
downloadDone(t) ==
  /\ tasks[t].kind = "download" /\ tasks[t].pc = "g1_save"
  /\ toast' = "success"
  /\ loadingShown' = FALSE
  /\ tasks' = Finish(t)
  /\ UNCHANGED <<mergeFiles, mergeJsDocs, mergeCurDoc, mergeDom, ops, rev, serial, rawBytes, pdfJsDoc, totalPages, curPage,
                 pageOrder, pageRots, selectedPgs, grid, dropZoneShown, btnsOn, gridBtnsOn,
                 sortableOn>>

\* getRebuildBytes rejected in downloadBtn: catch, finally
downloadFailed(t) ==
  /\ tasks[t].kind = "download" /\ tasks[t].pc \in {"g1_copy", "g1_save"}
  /\ toast' = "error:download"
  /\ loadingShown' = FALSE
  /\ tasks' = Finish(t)
  /\ UNCHANGED <<mergeFiles, mergeJsDocs, mergeCurDoc, mergeDom, ops, rev, serial, rawBytes, pdfJsDoc, totalPages, curPage,
                 pageOrder, pageRots, selectedPgs, grid, dropZoneShown, btnsOn, gridBtnsOn,
                 sortableOn>>

(***************************************************************************)
(* The program.                                                            *)
(***************************************************************************)
Revisions == {"v3", "v4"}
PageInputs == {NaN} \cup 0..(MaxPages + 1)
GridPositions == 0..(MaxTasks * MaxPages - 1)
SplitInputs == {NaN} \cup 0..(MaxPages + 1)
MergePicks == {<<f>> : f \in Files} \cup {<<f, g>> : f, g \in Files}

\* the state after the script has run (script.js 49-70, 784-785)
InitState ==
  /\ rev \in Revisions
  /\ rawBytes = Null /\ pdfJsDoc = Null
  /\ totalPages = 0 /\ curPage = 1
  /\ pageOrder = <<>> /\ pageRots = EmptyRots /\ selectedPgs = {}
  /\ grid = <<>>
  /\ dropZoneShown = TRUE /\ btnsOn = FALSE /\ gridBtnsOn = FALSE /\ sortableOn = FALSE
  /\ toast = "none"
  /\ tasks = [t \in Slots |-> IdleTask]
  /\ mergeFiles = <<>> /\ mergeJsDocs = <<>> /\ mergeCurDoc = 0
  /\ mergeDom = updateMergeList(<<>>, <<>>, 0)
  /\ loadingShown = FALSE
  /\ ops = 0

Init == InitState /\ serial = FALSE

InitSeq == InitState /\ serial = TRUE

Next ==
  \/ \E f \in Files : LoadFile(f)
  \/ \E t \in Slots : LoadRead(t)
  \/ \E t \in Slots : LoadParsed(t)
  \/ \E t \in Slots : LoadDone(t)
  \/ \E t \in Slots : LoadFailed(t)
  \/ ClearFile
  \/ \E d \in {-1, 1} : TurnPage(d)
  \/ \E has \in BOOLEAN, pg \in PageInputs : EditRejected(has, pg)
  \/ \E pg \in PageInputs : EditStart(pg)
  \/ Download
  \/ \E t \in Slots : RebuildLoaded(t)
  \/ \E t \in Slots : RebuildCopied(t)
  \/ \E t \in Slots : CodecFailed(t)
  \/ \E t \in Slots : DownloadDone(t)
  \/ \E t \in Slots : EditReopen(t)
  \/ \E t \in Slots : EditMutate(t)
  \/ \E t \in Slots : ApplyEditInstall(t)
  \/ \E t \in Slots : ApplyEditReset(t)
  \/ \E t \in Slots : EditDone(t)
  \/ \E t \in Slots : ApplyEditFailed(t)
  \/ OpenPages
  \/ \E t \in Slots : GridThumb(t)
  \/ \E t \in Slots : GridDone(t)
  \/ \E t \in Slots : GridFailed(t)
  \/ \E idx \in GridPositions : ThumbClick(idx)
  \/ SelectAll
  \/ DeselectAll
  \/ \E o, n \in GridPositions : ReorderPages(o, n)
  \/ DeleteRejected
  \/ DeletePages
  \/ \E deg \in {-90, 90} : RotateSel(deg)

\* the handlers as the event loop interleaves them
Spec == Init /\ [][Next]_vars

\* the handlers one at a time: none starts while another is in flight
SpecSeq == InitSeq /\ [][Next]_vars

\* the pages panel with the split and merge panels: the structural handlers, and
\* the handlers that derive a file without touching the session
NextFiles ==
  \/ \E f \in Files : LoadFile(f)
  \/ \E t \in Slots : LoadRead(t)
  \/ \E t \in Slots : LoadParsed(t)
  \/ \E t \in Slots : LoadDone(t)
  \/ \E t \in Slots : LoadFailed(t)
  \/ ClearFile
  \/ OpenPages
  \/ \E t \in Slots : GridThumb(t)
  \/ \E t \in Slots : GridDone(t)
  \/ \E t \in Slots : GridFailed(t)
  \/ \E idx \in GridPositions : ThumbClick(idx)
  \/ SelectAll
  \/ \E o, n \in GridPositions : ReorderPages(o, n)
  \/ DeletePages
  \/ \E deg \in {-90, 90} : RotateSel(deg)
  \/ \E t \in Slots : CodecFailed(t)
  \/ \E from, to \in SplitInputs : SplitRejected(from, to)
  \/ \E from, to \in SplitInputs : SplitStart(from, to)
  \/ \E t \in Slots : SplitCopied(t)
  \/ \E t \in Slots : SplitDone(t)
  \/ \E fs \in MergePicks : AddMergeFiles(fs)
  \/ \E t \in Slots : AddMergeRead(t)
  \/ \E t \in Slots : AddMergeDone(t)
  \/ \E t \in Slots : AddMergeFailed(t)
  \/ MergeRejected
  \/ MergeStart
  \/ \E t \in Slots : MergeFile(t)
  \/ \E t \in Slots : MergeDone(t)

\* the same, one handler at a time
SpecFiles == InitSeq /\ [][NextFiles]_vars

\* the merge list alone: files added and removed, the previewed document
\* switched, the draws resolving in any order
MergeItems == 0..(MaxMerge - 1)

NextMerge ==
  \/ \E fs \in MergePicks : AddMergeFiles(fs)
  \/ \E t \in Slots : AddMergeRead(t)
  \/ \E t \in Slots : AddMergeDone(t)
  \/ \E t \in Slots : AddMergeFailed(t)
  \/ \E i \in MergeItems : removeMergeFile(i)
  \/ \E i \in MergeItems : previewMergeDoc(i)
  \/ mergePrevDoc
  \/ mergeNextDoc
  \/ \E t \in Slots : renderMergePreviewDone(t)
  \/ \E t \in Slots : renderMergePreviewFailed(t)

SpecMerge == Init /\ [][NextMerge]_vars

\* the handlers that check their input before they act (content edit, delete,
\* merge), with what it takes to reach them
NextChecked ==
  \/ \E f \in Files : LoadFile(f)
  \/ \E t \in Slots : LoadRead(t)
  \/ \E t \in Slots : LoadParsed(t)
  \/ \E t \in Slots : LoadDone(t)
  \/ \E t \in Slots : LoadFailed(t)
  \/ ClearFile
  \/ OpenPages
  \/ \E t \in Slots : GridThumb(t)
  \/ \E t \in Slots : GridDone(t)
  \/ \E t \in Slots : GridFailed(t)
  \/ \E idx \in GridPositions : ThumbClick(idx)
  \/ SelectAll
  \/ DeleteRejected
  \/ DeletePages
  \/ \E has \in BOOLEAN, pg \in PageInputs : EditRejected(has, pg)
  \/ \E pg \in PageInputs : EditStart(pg)
  \/ \E t \in Slots : RebuildLoaded(t)
  \/ \E t \in Slots : RebuildCopied(t)
  \/ \E t \in Slots : CodecFailed(t)
  \/ \E t \in Slots : EditReopen(t)
  \/ \E t \in Slots : EditMutate(t)
  \/ \E t \in Slots : ApplyEditInstall(t)
  \/ \E t \in Slots : ApplyEditReset(t)
  \/ \E t \in Slots : EditDone(t)
  \/ \E t \in Slots : ApplyEditFailed(t)
  \/ \E fs \in MergePicks : AddMergeFiles(fs)
  \/ \E t \in Slots : AddMergeRead(t)
  \/ \E t \in Slots : AddMergeDone(t)
  \/ \E t \in Slots : AddMergeFailed(t)
  \/ MergeRejected
  \/ MergeStart
  \/ \E t \in Slots : MergeFile(t)
  \/ \E t \in Slots : MergeDone(t)

SpecChecked == InitSeq /\ [][NextChecked]_vars

\* the state after the minimal revision's script has run (part_001 15-22)
InitMinimal ==
  /\ rev = "min" /\ serial = FALSE
  /\ rawBytes = Null /\ pdfJsDoc = Null
  /\ totalPages = 0 /\ curPage = 1
  /\ pageOrder = <<>> /\ pageRots = EmptyRots /\ selectedPgs = {}
  /\ grid = <<>>
  /\ dropZoneShown = TRUE /\ btnsOn = FALSE /\ gridBtnsOn = FALSE /\ sortableOn = FALSE
  /\ toast = "none"
  /\ tasks = [t \in Slots |-> IdleTask]
  /\ mergeFiles = <<>> /\ mergeJsDocs = <<>> /\ mergeCurDoc = 0
  /\ mergeDom = updateMergeList(<<>>, <<>>, 0)
  /\ loadingShown = FALSE
  /\ ops = 0

NextMinimal ==
  \/ \E f \in Files : pdfUpload(f)
  \/ \E t \in Slots : pdfUploadRead(t)
  \/ \E t \in Slots : pdfUploadParsed(t)
  \/ \E t \in Slots : pdfUploadFailed(t)
  \/ \E i \in 0..(MaxPages - 1) : thumbClick(i)
  \/ \E o, n \in 0..(MaxPages - 1) : onEnd(o, n)
  \/ deletePage
  \/ rotatePage
  \/ \E d \in {-1, 1} : turnPage(d)
  \/ rebuild
  \/ \E t \in Slots : rebuildCopied(t)
  \/ \E t \in Slots : rebuildSaved(t)
  \/ \E t \in Slots : rebuildFailed(t)

\* the minimal revision
SpecMinimal == InitMinimal /\ [][NextMinimal]_vars

InitFirst ==
  /\ rev = "v1" /\ serial = TRUE
  /\ rawBytes = Null /\ pdfJsDoc = Null
  /\ totalPages = 0 /\ curPage = 1
  /\ pageOrder = <<>> /\ pageRots = EmptyRots /\ selectedPgs = {}
  /\ grid = <<>>
  /\ dropZoneShown = TRUE /\ btnsOn = FALSE /\ gridBtnsOn = FALSE /\ sortableOn = FALSE
  /\ toast = "none"
  /\ tasks = [t \in Slots |-> IdleTask]
  /\ mergeFiles = <<>> /\ mergeJsDocs = <<>> /\ mergeCurDoc = 0
  /\ mergeDom = updateMergeList(<<>>, <<>>, 0)
  /\ loadingShown = FALSE
  /\ ops = 0

NextFirst ==
  \/ \E f \in Files : handleFileUpload(f)
  \/ \E t \in Slots : handleFileUploadLoaded(t)
  \/ \E t \in Slots : handleFileUploadParsed(t)
  \/ \E t \in Slots : handleFileUploadDone(t)
  \/ \E t \in Slots : handleFileUploadFailed(t)
  \/ \E i \in 0..(MaxPages - 1) : thumbSelect(i)
  \/ \E o, n \in 0..(MaxPages - 1) : gridOnEnd(o, n)
  \/ deleteSelectedBtn
  \/ \E degrees \in {-90, 90} : rotateSelected(degrees)
  \/ \E pageNum \in 1..MaxPages : addTextBtn(pageNum)
  \/ downloadBtn
  \/ \E t \in Slots : getRebuildBytesCopied(t)
  \/ \E t \in Slots : addTextDrawn(t)
  \/ \E t \in Slots : reloadFromBytes(t)
  \/ \E t \in Slots : reloadFromBytesParsed(t)
  \/ \E t \in Slots : addTextDone(t)
  \/ \E t \in Slots : addTextFailed(t)
  \/ \E t \in Slots : downloadDone(t)
  \/ \E t \in Slots : downloadFailed(t)

\* the first revision
SpecFirst == InitFirst /\ [][NextFirst]_vars

\* a pending await of task t settles: the handler runs on to its next await or
\* to its end
Resume(t) ==
  \/ LoadRead(t) \/ LoadParsed(t) \/ LoadDone(t) \/ LoadFailed(t)
  \/ RebuildLoaded(t) \/ RebuildCopied(t) \/ CodecFailed(t) \/ DownloadDone(t)
  \/ EditReopen(t) \/ EditMutate(t) \/ ApplyEditInstall(t) \/ ApplyEditReset(t)
  \/ EditDone(t) \/ ApplyEditFailed(t)
  \/ SplitCopied(t) \/ SplitDone(t)
  \/ AddMergeRead(t) \/ AddMergeDone(t) \/ AddMergeFailed(t)
  \/ MergeFile(t) \/ MergeDone(t)

\* the handlers that produce a document: download, content edit, split, merge
NextOps ==
  \/ \E f \in Files : LoadFile(f)
  \/ ClearFile
  \/ Download
  \/ \E pg \in PageInputs : EditStart(pg)
  \/ \E from, to \in SplitInputs : SplitStart(from, to)
  \/ \E fs \in MergePicks : AddMergeFiles(fs)
  \/ MergeStart
  \/ \E t \in Slots : Resume(t)

\* every promise a handler awaits settles: the event loop resumes the handler
SpecLive == InitSeq /\ [][NextOps]_vars /\ \A t \in Slots : WF_vars(Resume(t))

(***************************************************************************)
(* Properties.                                                             *)
(***************************************************************************)
\* the angle of a page as the codec reports it to a reader: none counts as 0
AngleOf(page) == IF page.rot = <<>> THEN 0 ELSE page.rot[1]

\* s without its entry at 0-based position i
Without(s, i) == [k \in 1..(Len(s) - 1) |-> IF k <= i THEN s[k] ELSE s[k + 1]]

Distinct(s) == \A j, k \in 1..Len(s) : j # k => s[j] # s[k]

InRange(s, n) == \A k \in 1..Len(s) : s[k] >= 0 /\ s[k] < n

\* a content edit has just committed: applyEdit has run through its reset
Committed(t) == tasks[t].kind = "edit" /\ tasks[t].pc = "ae_preview"

\* rebuild has returned to the handler that called it
Rebuilt(t) == tasks[t].pc = "rb_save"

\* C1: after a content edit commits through applyEdit, pageOrder is the identity
\* over the page count of the newly installed bytes and pageRots is empty,
\* whatever they held before.
C1_ChainingReset ==
  \A t \in Slots :
    Committed(t) =>
      /\ rawBytes = tasks[t].doc
      /\ Len(pageOrder) = NumPages(rawBytes)
      /\ \A k \in 1..Len(pageOrder) : pageOrder[k] = k - 1
      /\ DOMAIN pageRots = {}

C1_Witness ==
  \E t \in Slots :
    /\ Committed(t)
    /\ tasks[t].pre.pageRots # EmptyRots
    /\ \E k \in 1..Len(tasks[t].pre.pageOrder) : tasks[t].pre.pageOrder[k] # k - 1

\* C2: if any step of a content edit fails, rawBytes, pageOrder, pageRots and
\* selectedPgs equal the values they had before the edit started.
C2_AllOrNothing ==
  [][\A t \in Slots :
       (tasks[t].kind = "edit" /\ tasks'[t].kind = "idle" /\ toast' = "error:edit")
         => /\ rawBytes' = tasks[t].pre.rawBytes
            /\ pageOrder' = tasks[t].pre.pageOrder
            /\ pageRots' = tasks[t].pre.pageRots
            /\ selectedPgs' = tasks[t].pre.selectedPgs]_vars

C4_RebuildPages ==
  \A t \in Slots :
    (Rebuilt(t) /\ InRange(pageOrder, NumPages(rawBytes))) =>
      /\ Len(tasks[t].pages) = Len(pageOrder)
      /\ \A k \in 1..Len(pageOrder) :
           /\ tasks[t].pages[k].c = rawBytes.pages[pageOrder[k] + 1].c
           /\ tasks[t].pages[k].ov = rawBytes.pages[pageOrder[k] + 1].ov

C4_Witness ==
  \E t \in Slots :
    /\ Rebuilt(t)
    /\ Len(pageOrder) = 2 /\ NumPages(rawBytes) = 3
    /\ pageOrder[1] > pageOrder[2]

\* C5: every page rebuild writes has the rotation (intrinsic rotation of source
\* page pageOrder[k] + pageRots[pageOrder[k]]) mod 360, a missing ledger entry
\* and an intrinsic rotation the codec reports as undefined both counting as 0;
\* a page whose delta is not 0 is written with a defined angle.
C5_RebuildRotation ==
  \A t \in Slots :
    (Rebuilt(t) /\ InRange(pageOrder, NumPages(rawBytes))) =>
      \A k \in 1..Len(tasks[t].pages) :
        LET source == rawBytes.pages[pageOrder[k] + 1]
            delta  == IF pageOrder[k] \in DOMAIN pageRots THEN pageRots[pageOrder[k]] ELSE 0
        IN /\ (AngleOf(tasks[t].pages[k]) - (AngleOf(source) + delta)) % 360 = 0
           /\ delta # 0 => tasks[t].pages[k].rot # <<>>

C5_Witness ==
  \E t \in Slots :
    /\ Rebuilt(t)
    /\ \E k \in 1..Len(pageOrder) :
         /\ pageOrder[k] # k - 1
         /\ pageOrder[k] \in DOMAIN pageRots
         /\ pageRots[pageOrder[k]] # 0
         /\ rawBytes.pages[pageOrder[k] + 1].rot = <<>>

\* C6: rebuild checks every entry of pageOrder against the snapshot's page
\* count before any codec call: no codec call of a rebuild is ever outstanding
\* on an order that fails the check.
C6_CheckBeforeCodec ==
  \A t \in Slots :
    (tasks[t].pc = "rb_load" /\ tasks[t].calls > 0) =>
      OrderValid(tasks[t].pre.pageOrder, NumPages(tasks[t].doc))

\* C7: the commit is atomic with respect to every other handler: in no state
\* another handler can run in does rawBytes hold the commit bytes while
\* pageOrder or pageRots still hold their pre-commit values.
C7_AtomicCommit ==
  \A t \in Slots :
    (tasks[t].pc = "ae_parse" /\ rawBytes = tasks[t].doc) =>
      /\ pageOrder = IdentityOrder(NumPages(rawBytes))
      /\ pageRots = EmptyRots

\* C8: when a content edit commits, selectedPgs is empty afterwards.
C8_SelectionCleared ==
  \A t \in Slots : Committed(t) => selectedPgs = {}

\* C9: a delete whose selection is at least as large as pageOrder is rejected
\* with 'Cannot delete all pages.' and leaves pageOrder, totalPages, pageRots,
\* curPage and the selection as they were.
DeleteStep ==
  /\ Len(pageOrder') < Len(pageOrder)
  /\ rawBytes' = rawBytes /\ ~rawBytes.null /\ pdfJsDoc' = pdfJsDoc

C9_DeleteAllGuard ==
  [][/\ (toast' = "error:deleteall" /\ toast # "error:deleteall")
          => UNCHANGED <<pageOrder, totalPages, pageRots, curPage, selectedPgs>>
     /\ Cardinality(selectedPgs) >= Len(pageOrder) => ~DeleteStep]_vars

C9_Witness ==
  /\ toast = "error:deleteall"
  /\ selectedPgs # {}
  /\ Len(pageOrder) > 1
  /\ Cardinality(selectedPgs) >= Len(pageOrder)
  /\ pageRots # EmptyRots

\* C10: reorder(from, to) takes the entry at position from out of pageOrder and
\* puts it back at position to: the same entries, the moved one at position to,
\* the others in their previous relative order; [0,1,2,3] with 0 -> 2 becomes
\* [1,2,0,3].
ReorderStep ==
  /\ pageOrder' # pageOrder
  /\ Len(pageOrder') = Len(pageOrder)
  /\ pdfJsDoc' = pdfJsDoc /\ ~pdfJsDoc.null

C10_Reorder ==
  /\ [](\A from, to \in 0..(Len(pageOrder) - 1) :
          LET after == Reorder(pageOrder, from, to)
          IN /\ Len(after) = Len(pageOrder)
             /\ after[to + 1] = pageOrder[from + 1]
             /\ Without(after, to) = Without(pageOrder, from))
  /\ [](Reorder(<<0, 1, 2, 3>>, 0, 2) = <<1, 2, 0, 3>>)
  /\ [][ReorderStep =>
          \E from, to \in 0..(Len(pageOrder) - 1) :
             /\ pageOrder'[to + 1] = pageOrder[from + 1]
             /\ Without(pageOrder', to) = Without(pageOrder, from)]_vars

C10_Witness ==
  /\ toast = "info"
  /\ pageOrder = <<1, 2, 0>>

\* C11: each rotate(+-90) on a selected position p replaces the ledger delta d
\* of original page pageOrder[p] by (d +- 90) mod 360, always a value in
\* {0, 90, 180, 270}: from 0, four +90 give 90, 180, 270, 0; a -90 from 0 gives
\* 270; a +90 followed by a -90 restores the delta.
RotateTaken == pageRots' # pageRots /\ DOMAIN pageRots' # {}

QuarterTurns == {0, 90, 180, 270}

C11_RotateComposition ==
  /\ [](\A k \in DOMAIN pageRots : pageRots[k] \in QuarterTurns)
  /\ [][RotateTaken =>
          \E deg \in {-90, 90} :
            \A p \in selectedPgs :
              LET orig == pageOrder[p + 1]
                  d    == IF orig \in DOMAIN pageRots THEN pageRots[orig] ELSE 0
              IN pageRots'[orig] = (d + deg) % 360]_vars
  /\ [](/\ RotateStep(0, 90) = 90
        /\ RotateStep(RotateStep(0, 90), 90) = 180
        /\ RotateStep(RotateStep(RotateStep(0, 90), 90), 90) = 270
        /\ RotateStep(RotateStep(RotateStep(RotateStep(0, 90), 90), 90), 90) = 0
        /\ RotateStep(0, -90) = 270
        /\ \A d \in QuarterTurns : RotateStep(RotateStep(d, 90), -90) = d)

C11_Witness ==
  /\ AllIdle
  /\ \E j, k \in DOMAIN pageRots : pageRots[j] = 0 /\ pageRots[k] = 270

\* C12: the selection is empty immediately after every structural mutation:
\* after each reorder, each batch rotate and each successful delete.
C12_SelectionAfterMutation ==
  [][(ReorderStep \/ RotateTaken \/ DeleteStep) => selectedPgs' = {}]_vars

C12_Witness ==
  /\ AllIdle /\ pdfJsDoc = rawBytes /\ ~rawBytes.null
  /\ selectedPgs = {}
  /\ pageRots # EmptyRots
  /\ Len(pageOrder) < NumPages(rawBytes)

\* the pages rebuild is to produce from a snapshot, an order and a ledger:
\* source page order[k], turned by its delta
Effective(src, order, rots, k) ==
  LET source == src.pages[order[k] + 1]
      delta  == IF order[k] \in DOMAIN rots THEN rots[order[k]] ELSE 0
  IN [c |-> source.c, ov |-> source.ov, angle |-> (AngleOf(source) + delta) % 360]

Shown(page) == [c |-> page.c, ov |-> page.ov, angle |-> AngleOf(page) % 360]

EditPcs == <<"rb_load", "rb_copy", "rb_save", "ed_load", "ed_save", "ae_parse", "ae_preview">>

PcIndex(pc) == CHOOSE k \in 1..Len(EditPcs) : EditPcs[k] = pc

\* C13: in every content edit the steps occur in the order rebuild baseline,
\* reopen, mutate, serialize, commit; rawBytes is not replaced before the
\* serialization has succeeded, and the bytes committed derive from a baseline
\* that reflects every reorder, delete and rotation pending when the edit
\* started.
C13_EditStepOrder ==
  /\ [](\A t \in Slots :
          (tasks[t].kind = "edit" /\ PcIndex(tasks[t].pc) <= 5) =>
             rawBytes = tasks[t].pre.rawBytes)
  /\ [](\A t \in Slots :
          (tasks[t].kind = "edit" /\ tasks[t].pc = "ae_parse") =>
             /\ rawBytes = tasks[t].doc
             /\ NumPages(rawBytes) = Len(tasks[t].pre.pageOrder)
             /\ \A k \in 1..NumPages(rawBytes) :
                  LET was == Effective(tasks[t].pre.rawBytes, tasks[t].pre.pageOrder,
                                       tasks[t].pre.pageRots, k)
                  IN Shown(rawBytes.pages[k]) =
                       [was EXCEPT !.ov = IF k = tasks[t].pg THEN @ + 1 ELSE @])
  /\ [][\A t \in Slots :
          (tasks[t].kind = "edit" /\ tasks'[t].kind = "edit" /\ tasks'[t].pc # tasks[t].pc)
             => PcIndex(tasks'[t].pc) = PcIndex(tasks[t].pc) + 1]_vars

C13_Witness ==
  \E t \in Slots :
    /\ Committed(t)
    /\ tasks[t].pre.pageRots # EmptyRots
    /\ Len(tasks[t].pre.pageOrder) < NumPages(tasks[t].pre.rawBytes)

\* C14: rebuild, and the download that uses it, does not commit: it leaves
\* rawBytes, pageOrder, pageRots, selectedPgs, totalPages and curPage unchanged,
\* so that a rebuild's output is that of the state it started in and of the
\* state it ends in: same page count, same page per position, same rotation.
C14_RebuildReadOnly ==
  /\ [][\A t \in Slots :
          ((tasks[t].kind = "download" \/ tasks'[t].kind = "download")
             /\ tasks'[t] # tasks[t])
            => UNCHANGED <<rawBytes, pageOrder, pageRots, selectedPgs, totalPages, curPage>>]_vars
  /\ [](\A t \in Slots :
          (tasks[t].kind = "download" /\ Rebuilt(t)) =>
            /\ PreNow = tasks[t].pre
            /\ Len(tasks[t].pages) = Len(pageOrder)
            /\ \A k \in 1..Len(pageOrder) :
                 Shown(tasks[t].pages[k]) = Effective(rawBytes, pageOrder, pageRots, k))

C14_Witness ==
  \E t \in Slots :
    /\ tasks[t].kind = "download" /\ Rebuilt(t)
    /\ \E k \in 1..Len(pageOrder) :
         /\ pageOrder[k] # k - 1
         /\ pageOrder[k] \in DOMAIN pageRots
         /\ k - 1 \notin DOMAIN pageRots

\* a rebuild started right after ingest: a picked file, identity order, empty
\* ledger
FreshRebuild(t) ==
  /\ Rebuilt(t)
  /\ tasks[t].doc \in Files /\ rawBytes = tasks[t].doc
  /\ Len(pageOrder) = NumPages(rawBytes)
  /\ \A k \in 1..Len(pageOrder) : pageOrder[k] = k - 1
  /\ DOMAIN pageRots = {}

\* C15 as stated: ingest followed immediately by rebuild yields the same page
\* count and the same page at every position as the input, and all rotations
\* in the output are 0.
C15_RoundTripZero ==
  \A t \in Slots :
    FreshRebuild(t) =>
      /\ Len(tasks[t].pages) = NumPages(rawBytes)
      /\ \A k \in 1..Len(tasks[t].pages) :
           /\ tasks[t].pages[k].c = rawBytes.pages[k].c
           /\ AngleOf(tasks[t].pages[k]) = 0

\* C15 amended: ingest followed immediately by rebuild yields the same page
\* count and the same page at every position as the input, each page with the
\* rotation it has in the input (no rotation is added).
C15_RoundTrip ==
  \A t \in Slots :
    FreshRebuild(t) =>
      /\ Len(tasks[t].pages) = NumPages(rawBytes)
      /\ \A k \in 1..Len(tasks[t].pages) : tasks[t].pages[k] = rawBytes.pages[k]

C15_Witness ==
  \E t \in Slots :
    /\ FreshRebuild(t)
    /\ NumPages(rawBytes) = 3
    /\ tasks[t].pre.pageOrder = pageOrder

\* 1 <= from <= to <= pageCount, both bounds numbers
ValidRange(from, to) ==
  /\ from # NaN /\ to # NaN
  /\ 1 <= from /\ from <= to /\ to <= totalPages

SplitReady == CanStart /\ btnsOn /\ ~rawBytes.null

\* C16: split(from, to) is rejected with the invalid-range error, produces no
\* output and changes no state whenever the range does not satisfy
\* 1 <= from <= to <= pageCount or a bound is not a number; it is accepted for
\* every range that does satisfy it.
C16_SplitRange ==
  /\ [][(toast' = "error:range" /\ toast # "error:range")
          => UNCHANGED <<rawBytes, pdfJsDoc, totalPages, curPage, pageOrder, pageRots,
                         selectedPgs, tasks, mergeFiles>>]_vars
  /\ [][\A t \in Slots :
          (tasks[t].kind = "idle" /\ tasks'[t].kind = "split")
             => ValidRange(tasks'[t].from, tasks'[t].to)]_vars
  /\ [](SplitReady =>
          \A from, to \in SplitInputs :
            IF ValidRange(from, to)
            THEN ENABLED SplitStart(from, to) /\ ~ENABLED SplitRejected(from, to)
            ELSE ENABLED SplitRejected(from, to) /\ ~ENABLED SplitStart(from, to))

C16_Witness ==
  /\ toast = "error:range"
  /\ AllIdle /\ ~rawBytes.null /\ totalPages = 3

\* C17: for a valid range split(from, to) outputs exactly to - from + 1 pages,
\* pages from..to (1-indexed, inclusive) of the current canonical document in
\* their existing relative order.
C17_SplitPages ==
  \A t \in Slots :
    (tasks[t].kind = "split" /\ tasks[t].pc = "sp_save") =>
      /\ Len(tasks[t].pages) = tasks[t].to - tasks[t].from + 1
      /\ \A k \in 1..Len(tasks[t].pages) :
           tasks[t].pages[k] = rawBytes.pages[tasks[t].from + k - 1]

C17_Witness ==
  \E t \in Slots :
    /\ tasks[t].kind = "split" /\ tasks[t].pc = "sp_save"
    /\ tasks[t].from = 2 /\ tasks[t].to = 3

\* all pages of the first document, then all pages of the second, and so on
RECURSIVE Flatten(_)
Flatten(docs) == IF docs = <<>> THEN <<>> ELSE Head(docs).pages \o Flatten(Tail(docs))

RECURSIVE PageSum(_)
PageSum(docs) == IF docs = <<>> THEN 0 ELSE NumPages(Head(docs)) + PageSum(Tail(docs))

Merged(t) == tasks[t].kind = "merge" /\ tasks[t].pc = "mg_save"

\* C18: merge over a list of k >= 2 source documents outputs a document whose
\* page count is the sum of the sources' page counts and whose pages are all
\* pages of source 1 in their original order, then all pages of source 2, and
\* so on in list order.
C18_MergeOrder ==
  \A t \in Slots :
    Merged(t) =>
      /\ Len(mergeFiles) >= 2
      /\ Len(tasks[t].pages) = PageSum(mergeFiles)
      /\ tasks[t].pages = Flatten(mergeFiles)

C18_Witness ==
  \E t \in Slots :
    /\ Merged(t)
    /\ mergeFiles = <<File(2), File(3)>>

C20_ToolsReadOnly ==
  /\ [][\A t \in Slots :
          ((tasks[t].kind \in {"split", "merge"} \/ tasks'[t].kind \in {"split", "merge"})
             /\ tasks'[t] # tasks[t])
            => UNCHANGED <<rawBytes, pageOrder, pageRots, selectedPgs>>]_vars
  /\ [][(toast' \in {"error:range", "error:split", "error:merge"} /\ toast' # toast)
          => UNCHANGED <<rawBytes, pageOrder, pageRots, selectedPgs>>]_vars
  /\ [](\A t \in Slots :
          Merged(t) => \A k \in 1..Len(Flatten(mergeFiles)) :
                          /\ k <= Len(tasks[t].pages)
                          /\ tasks[t].pages[k] = Flatten(mergeFiles)[k])

C20_Witness ==
  \E t \in Slots :
    /\ Merged(t)
    /\ ~rawBytes.null /\ rawBytes \notin Range(mergeFiles)
    /\ pageRots # EmptyRots

\* a file pick has come through ingestBytes(bytes, true) and loadFile's previewMain(1)
Ingested(t) == tasks[t].kind = "load" /\ tasks[t].pc = "ld_preview"

\* C21: after ingest of a new file completes, rawBytes is the ingested buffer,
\* pageOrder is the identity over its page count, pageRots is empty,
\* selectedPgs is empty and curPage is 1, whatever the session held before.
C21_IngestReset ==
  \A t \in Slots :
    Ingested(t) =>
      /\ rawBytes = tasks[t].doc
      /\ Len(pageOrder) = NumPages(rawBytes)
      /\ \A k \in 1..Len(pageOrder) : pageOrder[k] = k - 1
      /\ DOMAIN pageRots = {}
      /\ selectedPgs = {}
      /\ curPage = 1

C21_Witness ==
  \E t \in Slots :
    /\ Ingested(t)
    /\ NumPages(rawBytes) = 3
    /\ ~tasks[t].pre.rawBytes.null
    /\ tasks[t].pre.rawBytes # rawBytes

\* what the session holds about the open document and the merge list
Session == <<rawBytes, pdfJsDoc, totalPages, curPage, pageOrder, pageRots, selectedPgs,
             mergeFiles>>

\* a handler returns on the check of its input
Refusal ==
  \/ \E has \in BOOLEAN, pg \in PageInputs : EditRejected(has, pg)
  \/ DeleteRejected
  \/ MergeRejected

RefusalToasts == {"error:input", "error:page", "error:deleteall"}

\* C22: an operation rejected for a recoverable reason (a content edit whose
\* page number is not a finite number in [1, totalPages], an empty text, a
\* missing image or a blank signature, a delete covering every page, a merge
\* with fewer than two files) leaves all session state untouched and starts no
\* rebuild, so that the same operation with corrected input is accepted from
\* the same state.
C22_RefusedUntouched ==
  /\ [][Refusal => (UNCHANGED Session /\ tasks' = tasks /\ loadingShown' = loadingShown)]_vars
  /\ [][(toast' \in RefusalToasts /\ toast' # toast)
          => (UNCHANGED Session /\ tasks' = tasks)]_vars
  /\ [](CanStart =>
          /\ (btnsOn /\ ~rawBytes.null /\ Overlays(rawBytes) < MaxOverlays)
                => \A pg \in 1..totalPages : ENABLED EditStart(pg)
          /\ (gridBtnsOn /\ selectedPgs # {} /\ Cardinality(selectedPgs) < Len(pageOrder))
                => ENABLED DeletePages
          /\ Len(mergeFiles) >= 2 => ENABLED MergeStart)

C22_Witness ==
  /\ AllIdle
  /\ toast = "error:input"
  /\ selectedPgs # {} /\ NumPages(rawBytes) = 3
  /\ Len(mergeFiles) = 1

\* C23: in every reachable state each key of pageRots is an original index in
\* [0, page count of the installed snapshot) and each value is in
\* {0, 90, 180, 270}; the entries stay valid against the installed snapshot
\* through any chain of reorder, rotate and delete, and are discarded only when
\* the snapshot is replaced.
C23_LedgerValid ==
  /\ [](\A k \in DOMAIN pageRots :
          /\ k >= 0 /\ k < NumPages(rawBytes)
          /\ pageRots[k] \in QuarterTurns)
  /\ [][(\E k \in DOMAIN pageRots : k \notin DOMAIN pageRots')
          => (rawBytes' # rawBytes \/ pdfJsDoc' # pdfJsDoc)]_vars

\* a content edit goes through applyEdit's reset
CommitStep ==
  \E t \in Slots : tasks[t].pc = "ae_parse" /\ tasks'[t].pc = "ae_preview"

\* C24: whenever a document is loaded, 1 <= curPage <= totalPages with
\* totalPages >= 1: delete and commit clamp curPage to the new page count, and
\* no sequence of navigate, delete, commit and ingest steps moves it out of
\* bounds.
C24_CurPageBounds ==
  /\ [](~pdfJsDoc.null => (totalPages >= 1 /\ 1 <= curPage /\ curPage <= totalPages))
  /\ [][(DeleteStep \/ CommitStep) => curPage' = Min(curPage, totalPages')]_vars

C24_Witness ==
  \E t \in Slots :
    /\ tasks[t].kind = "delete"
    /\ tasks[t].pre.curPage = 3
    /\ curPage = 2 /\ totalPages = 2

OpKinds == {"download", "edit", "split", "merge"}

OpOutcomes == {"success", "error:download", "error:edit", "error:split", "error:merge",
               "error:corrupt"}

\* C25: every started operation (download, content edit, split, merge)
\* eventually finishes, exactly once, with its success outcome or a reported
\* error, provided each codec call returns; a failed operation is never
\* retried automatically, and the loading indicator is turned off when the
\* operation ends on either path.
C25_Termination ==
  /\ \A t \in Slots : (tasks[t].kind \in OpKinds) ~> (tasks[t].kind = "idle")
  /\ [][\A t \in Slots :
          (tasks[t].kind \in OpKinds /\ tasks'[t].kind # tasks[t].kind)
             => /\ tasks'[t].kind = "idle"
                /\ toast' \in OpOutcomes
                /\ (toast' = "success") =>
                      (tasks[t].pc \in {"rb_save", "ae_preview", "sp_save", "mg_save"})
                /\ loadingShown' = FALSE]_vars
  /\ [][\A t \in Slots :
          (tasks[t].kind = "idle" /\ tasks'[t].kind \in OpKinds)
             => (ops' = ops + 1 /\ loadingShown')]_vars

C25_Witness ==
  /\ AllIdle /\ ~loadingShown
  /\ toast = "error:split"
  /\ Len(mergeFiles) = 2

\* the minimal revision's rebuild has its pages, and nothing it read has
\* changed since the click
RebuiltMinimal(t) ==
  tasks[t].kind = "rebuild" /\ tasks[t].pc = "mr_save" /\ tasks[t].pre = PreNow

\* C26: in the minimal revision a delete that would remove every remaining
\* page is refused: after any sequence of delete clicks on a loaded document,
\* pageOrder still contains at least one page.
C26_MinimalKeepsOnePage ==
  /\ [](~pdfJsDoc.null => Len(pageOrder) >= 1)
  /\ [][deletePage => Len(pageOrder') >= 1]_vars

\* C27: in the minimal revision's rebuild a page whose ledger rotation is d is
\* written with rotation (intrinsic rotation of the source page + d) mod 360:
\* the delta is added to the page's own rotation, not substituted for it.
C27_MinimalRotationAdded ==
  \A t \in Slots :
    RebuiltMinimal(t) =>
      \A k \in 1..Len(tasks[t].pages) :
        LET source == rawBytes.pages[pageOrder[k] + 1]
            d      == IF pageOrder[k] \in DOMAIN pageRots THEN pageRots[pageOrder[k]] ELSE 0
        IN (AngleOf(tasks[t].pages[k]) - (AngleOf(source) + d)) % 360 = 0

\* C28: a commit preserves the logical document: for every order position k,
\* the page and the effective rotation (intrinsic + ledger delta, mod 360) that
\* rebuild would output at position k immediately before a content edit are
\* the page and effective rotation it outputs at position k immediately after
\* the commit (the page then carrying the overlay drawn on it); no reorder is
\* applied twice and no rotation is counted twice.
C28_CommitPreserves ==
  \A t \in Slots :
    Committed(t) =>
      /\ Len(pageOrder) = Len(tasks[t].pre.pageOrder)
      /\ \A k \in 1..Len(pageOrder) :
           LET before == Effective(tasks[t].pre.rawBytes, tasks[t].pre.pageOrder,
                                   tasks[t].pre.pageRots, k)
               after  == Effective(rawBytes, pageOrder, pageRots, k)
           IN after = [before EXCEPT !.ov = IF k = tasks[t].pg THEN @ + 1 ELSE @]

C28_Witness ==
  \E t \in Slots :
    /\ Committed(t)
    /\ \E k \in 1..Len(tasks[t].pre.pageOrder) :
         LET orig == tasks[t].pre.pageOrder[k]
         IN /\ orig # k - 1
            /\ orig \in DOMAIN tasks[t].pre.pageRots
            /\ tasks[t].pre.pageRots[orig] # 0
            /\ tasks[t].pre.rawBytes.pages[orig + 1].rot # <<>>

\* a content edit of the first revision has just committed: reloadFromBytes
\* installed the new bytes and ran its reset test
CommittedFirst(t) == tasks[t].kind = "edit" /\ tasks[t].pc = "r1_preview"

\* C29: in the first revision, once a content edit has committed, a rebuild
\* that follows with no further edit returns the committed document's pages
\* in the same order and with the same rotations: a reorder or rotation that
\* was pending before the edit is applied exactly once, also when the page
\* count did not change.
C29_FirstRebuildAfterCommit ==
  \A t \in Slots :
    CommittedFirst(t) =>
      /\ ~getRebuildBytesThrows(rawBytes, pageOrder, pageRots)
      /\ getRebuildBytes(rawBytes, pageOrder, pageRots) = rawBytes.pages

\* the entries of order at the positions (0-based) outside sel, in order's sequence
KeepUnselected(order, sel) ==
  LET kept == {k \in 1..Len(order) : (k - 1) \notin sel}
      Nth(n) == CHOOSE k \in kept : Cardinality({j \in kept : j < k}) = n - 1
  IN [n \in 1..Cardinality(kept) |-> order[Nth(n)]]

\* C30: a successful delete removes from pageOrder exactly the entries at the
\* selected positions: the remaining entries keep their relative order, the
\* new length is the old length minus the selection size, totalPages is the
\* new length and pageRots is unchanged; deleting position 1 of [1,2,0,3]
\* gives [1,0,3].
C30_DeleteExact ==
  /\ [][DeleteStep =>
          /\ pageOrder' = KeepUnselected(pageOrder, selectedPgs)
          /\ Len(pageOrder') = Len(pageOrder) - Cardinality(selectedPgs)
          /\ totalPages' = Len(pageOrder')
          /\ pageRots' = pageRots]_vars
  /\ [](DeleteSelected(<<1, 2, 0, 3>>, {1}) = <<1, 0, 3>>)

C30_Witness ==
  \E t \in Slots :
    /\ tasks[t].kind = "delete"
    /\ tasks[t].pre.pageOrder = <<1, 2, 0>>
    /\ tasks[t].pre.selectedPgs = {1}
    /\ pageOrder = <<1, 0>>
    /\ totalPages = 2
    /\ pageRots = tasks[t].pre.pageRots

\* the original pages at the selected positions
SelectedOriginals == {OrderAt(pageOrder, p) : p \in selectedPgs}

\* where rebuild can copy the order, every original page kept by the step is
\* output with the page content and effective rotation it had, wherever it
\* now stands
PagesFollow ==
  OrderValid(pageOrder, NumPages(rawBytes)) =>
    \A k \in 1..Len(pageOrder), j \in 1..Len(pageOrder') :
      pageOrder[k] = pageOrder'[j] =>
        Effective(rawBytes, pageOrder, pageRots, k)
          = Effective(rawBytes', pageOrder', pageRots', j)

\* C31: a rotation delta follows its page: rotate changes only the ledger
\* entries of the original pages at the selected positions and leaves
\* pageOrder, rawBytes and every other ledger entry unchanged; reorder and
\* delete leave the ledger unchanged, so after a reorder or delete rebuild
\* outputs each remaining page with the same effective rotation at its new
\* position.
C31_DeltaFollowsPage ==
  [][/\ (\E deg \in {-90, 90} : RotateSel(deg)) =>
          /\ UNCHANGED <<pageOrder, rawBytes>>
          /\ \A x \in (DOMAIN pageRots) \cup (DOMAIN pageRots') :
               x \notin SelectedOriginals =>
                 /\ x \in DOMAIN pageRots /\ x \in DOMAIN pageRots'
                 /\ pageRots'[x] = pageRots[x]
          /\ \A x \in SelectedOriginals : x \in DOMAIN pageRots'
     /\ ((\E o, n \in GridPositions : ReorderPages(o, n)) \/ DeletePages) =>
          /\ pageRots' = pageRots
          /\ rawBytes' = rawBytes
          /\ PagesFollow]_vars

C31_Witness ==
  \E t \in Slots :
    /\ tasks[t].kind = "delete"
    /\ pageRots = tasks[t].pre.pageRots
    /\ \E k \in 1..Len(tasks[t].pre.pageOrder), j \in 1..Len(pageOrder) :
         /\ tasks[t].pre.pageOrder[k] = pageOrder[j]
         /\ j # k
         /\ RotOf(pageRots, pageOrder[j]) # 0
         /\ Effective(rawBytes, pageOrder, pageRots, j)
              = Effective(tasks[t].pre.rawBytes, tasks[t].pre.pageOrder,
                          tasks[t].pre.pageRots, k)

\* the pages a download places at order positions from..to of the document
\* as edited: the copies in the order's sequence, with their pending rotations
EditedRange(src, order, rots, from, to) ==
  LET edited == RotatePages(CopyPages(src, order), order, rots)
  IN [k \in 1..(to - from + 1) |-> edited[from + k - 1]]

\* split has copied its pages
SplitCopiedState(t) == tasks[t].kind = "split" /\ tasks[t].pc = "sp_save"

\* C32: when split is invoked while reorder, delete or rotation edits are
\* pending, its output pages are those at order positions from..to of the
\* document as currently edited, with their pending rotations (the pages a
\* download would place there), never a deleted page.
C32_SplitOfEditedDocument ==
  \A t \in Slots :
    (SplitCopiedState(t) /\ OrderValid(tasks[t].pre.pageOrder, NumPages(tasks[t].pre.rawBytes))) =>
      /\ tasks[t].pages = EditedRange(tasks[t].pre.rawBytes, tasks[t].pre.pageOrder,
                                      tasks[t].pre.pageRots, tasks[t].from, tasks[t].to)
      /\ \A k \in 1..Len(tasks[t].pages) :
           \E j \in 1..Len(tasks[t].pre.pageOrder) :
             tasks[t].pre.rawBytes.pages[tasks[t].pre.pageOrder[j] + 1].c = tasks[t].pages[k].c

\* what rebuild returns for one session state: the copies of src in order's
\* sequence with the ledger's deltas; none where rebuild throws
BuildOf(src, order, rots) ==
  IF ~src.null /\ OrderValid(order, NumPages(src))
  THEN <<RotatePages(CopyPages(src, order), order, rots)>>
  ELSE <<>>

\* C33: the bytes rebuild returns correspond to the (rawBytes, pageOrder,
\* pageRots) triple of one single session state, also when another handler
\* runs while rebuild is suspended on a codec call: the pages it has built
\* when its last read of the session is done are those of the state it reads
\* then or of the state it started in, never the snapshot of one state with
\* the order or ledger of another.
C33_RebuildOneState ==
  [][\A t \in Slots :
       RebuildCopied(t) =>
         \/ BuildOf(rawBytes, pageOrder, pageRots) = <<tasks'[t].pages>>
         \/ BuildOf(tasks[t].pre.rawBytes, tasks[t].pre.pageOrder, tasks[t].pre.pageRots)
              = <<tasks'[t].pages>>]_vars

\* C34: whenever no operation is in flight, the preview document pdfJsDoc was
\* parsed from exactly the bytes installed as rawBytes and totalPages is its
\* page count, also after loads or commits that were started concurrently.
C34_PreviewOfSnapshot ==
  (AllIdle /\ ~pdfJsDoc.null) =>
    /\ pdfJsDoc = rawBytes
    /\ totalPages = NumPages(pdfJsDoc)

\* a content edit has reopened the baseline that rebuild produced
Reopened(t) == tasks[t].kind = "edit" /\ tasks[t].pc = "ed_load"

C37_OrderNeverCorrupt ==
  /\ (AllIdle /\ ~rawBytes.null) =>
       /\ Distinct(pageOrder)
       /\ InRange(pageOrder, NumPages(rawBytes))
  /\ toast # "error:corrupt"
  /\ \A t \in Slots : tasks[t].pc = "rb_copy" => ~tasks[t].err

\* the source page that stood at order position k (1-based) when edit t started
SourceAt(t, k) == tasks[t].pre.rawBytes.pages[tasks[t].pre.pageOrder[k] + 1]

\* C38: the page number pg of a content edit selects the page at order
\* position pg of the document as arranged when the edit starts (original
\* page pageOrder[pg - 1] with its pending rotation), not original page pg;
\* after the commit that page, carrying the overlay, is page pg of the new
\* snapshot, and no other page carries a new overlay.
C38_EditTargetsPosition ==
  \A t \in Slots :
    Committed(t) =>
      LET pg   == tasks[t].pg
          orig == tasks[t].pre.pageOrder[pg]
      IN /\ rawBytes.pages[pg].c = SourceAt(t, pg).c
         /\ rawBytes.pages[pg].ov = SourceAt(t, pg).ov + 1
         /\ AngleOf(rawBytes.pages[pg]) % 360
              = (AngleOf(SourceAt(t, pg)) + RotOf(tasks[t].pre.pageRots, orig)) % 360
         /\ \A k \in 1..NumPages(rawBytes) :
              k # pg => rawBytes.pages[k].ov = SourceAt(t, k).ov

C38_Witness ==
  \E t \in Slots :
    /\ Committed(t)
    /\ tasks[t].pre.pageOrder[tasks[t].pg] # tasks[t].pg - 1
    /\ RotOf(tasks[t].pre.pageRots, tasks[t].pre.pageOrder[tasks[t].pg]) # 0
    /\ rawBytes.pages[tasks[t].pg].c = tasks[t].pre.pageOrder[tasks[t].pg] + 1
    /\ rawBytes.pages[tasks[t].pg].ov = 1

\* the unloaded session
Unloaded ==
  /\ rawBytes.null /\ pdfJsDoc.null
  /\ pageOrder = <<>> /\ pageRots = EmptyRots /\ selectedPgs = {}
  /\ totalPages = 0 /\ curPage = 1

\* a step of a file load: the pick, or a continuation of a load handler
LoadStep == \E t \in Slots : tasks[t].kind = "load" \/ tasks'[t].kind = "load"

\* C39: after the clear action the session is unloaded (rawBytes and pdfJsDoc
\* null, pageOrder, pageRots and the selection empty, totalPages 0, curPage 1)
\* and stays so until the next file load: no edit, split or download starts,
\* and no step other than a file load's, in particular none of an operation
\* that was in flight when clear ran, installs document state again.
C39_ClearedStaysUnloaded ==
  [][/\ ClearFile => Unloaded'
     /\ (Unloaded /\ ~LoadStep) =>
          /\ Unloaded'
          /\ \A t \in Slots :
               tasks[t].kind = "idle" => tasks'[t].kind \notin {"edit", "split", "download"}]_vars

\* C40: the merge list is consistent in every reachable state, however the
\* add-files, remove, previous/next-document and preview-draw steps interleave:
\* mergeFiles and mergeJsDocs have the same length, entry i of each is the same
\* file, and 0 <= mergeCurDoc <= max(0, mergeFiles.length - 1).
C40_MergeListConsistent ==
  /\ Len(mergeFiles) = Len(mergeJsDocs)
  /\ \A i \in 1..Len(mergeFiles) : mergeJsDocs[i] = mergeFiles[i]
  /\ 0 <= mergeCurDoc
  /\ mergeCurDoc <= Max(0, Len(mergeFiles) - 1)

====
